---- MODULE Spec2Model ----
(***************************************************************************)
(* State-machine model of the IoV alerting core:                           *)
(*   - VehicleRegistry.sol     (identity registry)                         *)
(*   - EdgeServerRegistry.sol  (infrastructure registry)                   *)
(*   - AlertSystem.sol         (the alert ledger and its ring buffer)      *)
(*   - the edge node's process-sensor-data route and decision engine       *)
(*                                                                         *)
(* Every contract call is one atomic transaction: it either runs to its    *)
(* end or reverts, leaving the contract storage untouched.  For each       *)
(* function f the operator fRevert gives the revert string of the first    *)
(* failing require, or OK when the call runs to its end.                   *)
(*                                                                         *)
(* A string that the contracts only measure (an alert message) is modelled *)
(* by its length in bytes; identifiers and locations are model strings,    *)
(* of which the contracts only test emptiness.                             *)
(***************************************************************************)
EXTENDS Integers, Sequences, FiniteSets, TLC

VARIABLES
    vehicles,             \* VehicleRegistry: mapping(address => Vehicle)
    edgeServers,          \* EdgeServerRegistry: mapping(address => EdgeServer)
    edgeServerAddresses,  \* EdgeServerRegistry: address[]
    alerts,               \* AlertSystem: Alert[]
    alertCount,           \* AlertSystem: uint
    recentAlerts,         \* AlertSystem: Alert[100], the slots written so far
    recentAlertIndex,     \* AlertSystem: uint
    now,                  \* block.timestamp
    pending,              \* edge nodes: the transaction each node has in flight
    outcomes,             \* edge nodes: the results returned to the callers
    views                 \* edge nodes: what each node's getAlerts last returned

vars == <<vehicles, edgeServers, edgeServerAddresses, alerts, alertCount,
          recentAlerts, recentAlertIndex, now, pending, outcomes, views>>

registryVars == <<vehicles>>
infraVars    == <<edgeServers, edgeServerAddresses>>
ledgerVars   == <<alerts, alertCount, recentAlerts, recentAlertIndex>>
chainVars    == <<registryVars, infraVars, ledgerVars, now>>
nodeVars     == <<pending, outcomes, views>>

----------------------------------------------------------------------------
(* Bounds of the model                                                     *)

MaxAlerts == 2
MaxServers == 2
MaxRingAlerts == 203
MaxBlocks == 2
MaxRequests == 3
MaxCalls == 2

(* Program constants                                                       *)

RingSize == 100

----------------------------------------------------------------------------
(* Value domains                                                           *)

ZeroAddr == "0x0"
Admin    == "admin"
Addr     == {Admin, "A1", "A2"}

NORMAL_VEHICLE    == "NORMAL_VEHICLE"
EMERGENCY_VEHICLE == "EMERGENCY_VEHICLE"
VehicleCategory   == {NORMAL_VEHICLE, EMERGENCY_VEHICLE}

ACCIDENT   == "ACCIDENT"
HAZARD     == "HAZARD"
CONGESTION == "CONGESTION"
EMERGENCY  == "EMERGENCY"
AlertType  == {ACCIDENT, HAZARD, CONGESTION, EMERGENCY}

LOW      == "LOW"
MEDIUM   == "MEDIUM"
HIGH     == "HIGH"
CRITICAL == "CRITICAL"
AlertPriority == {LOW, MEDIUM, HIGH, CRITICAL}

(* Inputs the environment supplies: "A1" is the key of a vehicle's          *)
(* on-board unit, "A2" the address of a road-side unit; any address may    *)
(* call any function.                                                      *)
Nodes           == {"N1", "N2"}
VehicleKeys     == {"A1"}
ServerAddrs     == {"A2"}
VehicleIdInputs == {"", "veh"}
ServerIdInputs  == {"", "rsu"}
LocationInputs  == {"loc"}
TrustInputs     == {0, 49, 50, 101}
ScoreInputs     == {99, 101}
MessageInputs   == {0, 500, 501}
SendTypes       == {HAZARD}
SendPriorities  == {LOW, CRITICAL}
BroadcastTypes  == {HAZARD, EMERGENCY}
RelayTypes      == {CONGESTION}
RelayPriorities == {MEDIUM}

----------------------------------------------------------------------------
(* Storage defaults: what an untouched Solidity slot reads as              *)

NoVehicle ==
    [vehicleId |-> "", category |-> NORMAL_VEHICLE, registered |-> FALSE,
     registeredTime |-> 0, trustScore |-> 0]

NoEdgeServer ==
    [serverId |-> "", serverAddress |-> ZeroAddr, active |-> FALSE,
     registeredTime |-> 0, location |-> "", performanceScore |-> 0]

NoAlert ==
    [message |-> 0, sender |-> ZeroAddr, timestamp |-> 0,
     alertType |-> ACCIDENT, priority |-> LOW, isEmergencyBroadcast |-> FALSE]

(* No transaction in flight                                                *)
NoCall ==
    [fn |-> "none", sender |-> ZeroAddr, message |-> 0, alertType |-> ACCIDENT,
     priority |-> LOW, originVehicle |-> ZeroAddr]

Alert(message, sender, timestamp, alertType, priority, isEmergencyBroadcast) ==
    [message |-> message, sender |-> sender, timestamp |-> timestamp,
     alertType |-> alertType, priority |-> priority,
     isEmergencyBroadcast |-> isEmergencyBroadcast]

(* A storage read: a mapping at any address (the zero address included),   *)
(* a slot of the fixed array Alert[100]; what was never written reads as   *)
(* the default                                                             *)
vehicleAt(a)    == IF a \in DOMAIN vehicles THEN vehicles[a] ELSE NoVehicle
edgeServerAt(a) == IF a \in DOMAIN edgeServers THEN edgeServers[a] ELSE NoEdgeServer
recentAlertAt(i) == IF i \in DOMAIN recentAlerts THEN recentAlerts[i] ELSE NoAlert

----------------------------------------------------------------------------
(* Transaction outcome                                                     *)

OK == "ok"

(* A reverted transaction changes no storage                               *)
Revert == UNCHANGED chainVars

----------------------------------------------------------------------------
(* VehicleRegistry                                                         *)

isRegistered(a) == vehicleAt(a).registered

isEmergencyVehicle(a) ==
    vehicleAt(a).registered /\ vehicleAt(a).category = EMERGENCY_VEHICLE

getTrustScore(a) ==
    IF ~vehicleAt(a).registered THEN 0 ELSE vehicleAt(a).trustScore

onlyAdmin(sender) == sender = Admin

(* Faulty variants of the registry code                                    *)

(* an address can register again                                           *)
registerVehicleRevert_Again(sender, vehicleId) ==
    IF vehicleId = "" THEN "Vehicle ID cannot be empty"
    ELSE OK

(* no upper limit on the trust score                                       *)
updateTrustScoreRevert_NoRange(sender, vehicle, newScore) ==
    IF ~(sender = Admin) THEN "Only admin can call this"
    ELSE IF ~vehicleAt(vehicle).registered THEN "Vehicle not registered"
    ELSE OK

(* the category can be set by any caller                                   *)
updateVehicleCategoryRevert_AnyCaller(sender, vehicle) ==
    IF ~vehicleAt(vehicle).registered THEN "Vehicle not registered"
    ELSE OK

registerVehicleRevert(sender, vehicleId) ==
    IF vehicleAt(sender).registered THEN "Vehicle already registered"
    ELSE IF vehicleId = "" THEN "Vehicle ID cannot be empty"
    ELSE OK

(* Faulty variant: the record is written without the registered flag      *)
registerVehicle_Unflagged(sender, vehicleId, category) ==
    LET r == registerVehicleRevert(sender, vehicleId) IN
    IF r # OK THEN Revert
    ELSE /\ vehicles' = [vehicles EXCEPT ![sender] =
                [vehicleId |-> vehicleId, category |-> category,
                 registered |-> FALSE, registeredTime |-> now,
                 trustScore |-> 100]]
         /\ UNCHANGED <<infraVars, ledgerVars, now>>

registerVehicle(sender, vehicleId, category) ==
    LET r == registerVehicleRevert(sender, vehicleId) IN
    IF r # OK THEN Revert
    ELSE /\ vehicles' = [vehicles EXCEPT ![sender] =
                [vehicleId |-> vehicleId, category |-> category,
                 registered |-> TRUE, registeredTime |-> now,
                 trustScore |-> 100]]
         /\ UNCHANGED <<infraVars, ledgerVars, now>>

updateTrustScoreRevert(sender, vehicle, newScore) ==
    IF ~onlyAdmin(sender) THEN "Only admin can call this"
    ELSE IF ~vehicleAt(vehicle).registered THEN "Vehicle not registered"
    ELSE IF ~(newScore <= 100) THEN "Trust score must be 0-100"
    ELSE OK

updateTrustScore(sender, vehicle, newScore) ==
    LET r == updateTrustScoreRevert(sender, vehicle, newScore) IN
    IF r # OK THEN Revert
    ELSE /\ vehicles' = [vehicles EXCEPT ![vehicle].trustScore = newScore]
         /\ UNCHANGED <<infraVars, ledgerVars, now>>

updateVehicleCategoryRevert(sender, vehicle) ==
    IF ~onlyAdmin(sender) THEN "Only admin can call this"
    ELSE IF ~vehicleAt(vehicle).registered THEN "Vehicle not registered"
    ELSE OK

updateVehicleCategory(sender, vehicle, newCategory) ==
    LET r == updateVehicleCategoryRevert(sender, vehicle) IN
    IF r # OK THEN Revert
    ELSE /\ vehicles' = [vehicles EXCEPT ![vehicle].category = newCategory]
         /\ UNCHANGED <<infraVars, ledgerVars, now>>

----------------------------------------------------------------------------
(* EdgeServerRegistry                                                      *)

(* Faulty variant: a server counts as active once it has a record,        *)
(* deactivated or not                                                      *)
isActiveEdgeServer_EverRegistered(a) ==
    edgeServerAt(a).serverAddress # ZeroAddr

isActiveEdgeServer(a) == edgeServerAt(a).active

getPerformanceScore(a) == edgeServerAt(a).performanceScore

getEdgeServerCount == Len(edgeServerAddresses)

getEdgeServerByIndexRevert(index) ==
    IF ~(index < Len(edgeServerAddresses)) THEN "Invalid index" ELSE OK

getEdgeServerByIndex(index) == edgeServerAddresses[index + 1]

registerEdgeServerRevert(sender, serverId, serverAddress) ==
    IF ~onlyAdmin(sender) THEN "Only admin can call this"
    ELSE IF serverAddress = ZeroAddr THEN "Invalid server address"
    ELSE IF edgeServerAt(serverAddress).active THEN "Server already registered"
    ELSE IF serverId = "" THEN "Server ID cannot be empty"
    ELSE OK

registerEdgeServer(sender, serverId, serverAddress, location) ==
    LET r == registerEdgeServerRevert(sender, serverId, serverAddress) IN
    IF r # OK THEN Revert
    ELSE /\ Len(edgeServerAddresses) < MaxServers
         /\ edgeServers' = [edgeServers EXCEPT ![serverAddress] =
                [serverId |-> serverId, serverAddress |-> serverAddress,
                 active |-> TRUE, registeredTime |-> now,
                 location |-> location, performanceScore |-> 100]]
         /\ edgeServerAddresses' = Append(edgeServerAddresses, serverAddress)
         /\ UNCHANGED <<registryVars, ledgerVars, now>>

(* Faulty variant: the score of any server with a record can be set        *)
updatePerformanceScoreRevert_Registered(sender, serverAddress, newScore) ==
    IF ~onlyAdmin(sender) THEN "Only admin can call this"
    ELSE IF edgeServerAt(serverAddress).serverAddress = ZeroAddr
         THEN "Server not active"
    ELSE IF ~(newScore <= 100) THEN "Score must be 0-100"
    ELSE OK

updatePerformanceScoreRevert(sender, serverAddress, newScore) ==
    IF ~onlyAdmin(sender) THEN "Only admin can call this"
    ELSE IF ~edgeServerAt(serverAddress).active THEN "Server not active"
    ELSE IF ~(newScore <= 100) THEN "Score must be 0-100"
    ELSE OK

updatePerformanceScore(sender, serverAddress, newScore) ==
    LET r == updatePerformanceScoreRevert(sender, serverAddress, newScore) IN
    IF r # OK THEN Revert
    ELSE /\ edgeServers' = [edgeServers EXCEPT
                                ![serverAddress].performanceScore = newScore]
         /\ UNCHANGED <<registryVars, edgeServerAddresses, ledgerVars, now>>

deactivateEdgeServerRevert(sender, serverAddress) ==
    IF ~onlyAdmin(sender) THEN "Only admin can call this"
    ELSE IF ~edgeServerAt(serverAddress).active THEN "Server not active"
    ELSE OK

deactivateEdgeServer(sender, serverAddress) ==
    LET r == deactivateEdgeServerRevert(sender, serverAddress) IN
    IF r # OK THEN Revert
    ELSE /\ edgeServers' = [edgeServers EXCEPT ![serverAddress].active = FALSE]
         /\ UNCHANGED <<registryVars, edgeServerAddresses, ledgerVars, now>>

(* Faulty variant: a reactivated server starts again with score 100        *)
reactivateEdgeServer_ResetScore(sender, serverAddress) ==
    LET r == IF ~onlyAdmin(sender) THEN "Only admin can call this"
             ELSE IF edgeServerAt(serverAddress).active
                  THEN "Server already active"
             ELSE IF edgeServerAt(serverAddress).serverAddress = ZeroAddr
                  THEN "Server not registered"
             ELSE OK
    IN
    IF r # OK THEN Revert
    ELSE /\ edgeServers' = [edgeServers EXCEPT
                                ![serverAddress].active = TRUE,
                                ![serverAddress].performanceScore = 100]
         /\ UNCHANGED <<registryVars, edgeServerAddresses, ledgerVars, now>>

reactivateEdgeServerRevert(sender, serverAddress) ==
    IF ~onlyAdmin(sender) THEN "Only admin can call this"
    ELSE IF edgeServerAt(serverAddress).active THEN "Server already active"
    ELSE IF edgeServerAt(serverAddress).serverAddress = ZeroAddr
         THEN "Server not registered"
    ELSE OK

reactivateEdgeServer(sender, serverAddress) ==
    LET r == reactivateEdgeServerRevert(sender, serverAddress) IN
    IF r # OK THEN Revert
    ELSE /\ edgeServers' = [edgeServers EXCEPT ![serverAddress].active = TRUE]
         /\ UNCHANGED <<registryVars, edgeServerAddresses, ledgerVars, now>>

----------------------------------------------------------------------------
(* AlertSystem                                                             *)

(* Faulty variants of the admission code.  Each property below is also   *)
(* evaluated with one of them in place of the function it is named after, *)
(* where the property has to fail.                                         *)

(* the cursor is not reduced modulo the capacity                           *)
storeAlert_NoWrap(a) ==
    /\ alerts' = Append(alerts, a)
    /\ alertCount' = alertCount + 1
    /\ recentAlerts' = (recentAlertIndex :> a) @@ recentAlerts
    /\ recentAlertIndex' = recentAlertIndex + 1

(* the cursor is advanced before the slot is written                       *)
storeAlert_AdvanceFirst(a) ==
    /\ alerts' = Append(alerts, a)
    /\ alertCount' = alertCount + 1
    /\ recentAlertIndex' = (recentAlertIndex + 1) % RingSize
    /\ recentAlerts' = (recentAlertIndex' :> a) @@ recentAlerts

(* the counter is not incremented                                          *)
storeAlert_LostCount(a) ==
    /\ alerts' = Append(alerts, a)
    /\ alertCount' = alertCount
    /\ recentAlerts' = (recentAlertIndex :> a) @@ recentAlerts
    /\ recentAlertIndex' = (recentAlertIndex + 1) % RingSize

(* the new alert takes the place of the newest one                         *)
storeAlert_ReplaceLast(a) ==
    /\ alerts' = IF alerts = <<>> THEN <<a>>
                 ELSE [alerts EXCEPT ![Len(alerts)] = a]
    /\ alertCount' = alertCount + 1
    /\ recentAlerts' = (recentAlertIndex :> a) @@ recentAlerts
    /\ recentAlertIndex' = (recentAlertIndex + 1) % RingSize

(* a slot that holds an alert is not written again                         *)
storeAlert_KeepOldest(a) ==
    /\ alerts' = Append(alerts, a)
    /\ alertCount' = alertCount + 1
    /\ recentAlerts' = IF recentAlertIndex \in DOMAIN recentAlerts
                       THEN recentAlerts
                       ELSE (recentAlertIndex :> a) @@ recentAlerts
    /\ recentAlertIndex' = (recentAlertIndex + 1) % RingSize

(* the new alert is put in front of the history                            *)
storeAlert_Prepend(a) ==
    /\ alerts' = <<a>> \o alerts
    /\ alertCount' = alertCount + 1
    /\ recentAlerts' = (recentAlertIndex :> a) @@ recentAlerts
    /\ recentAlertIndex' = (recentAlertIndex + 1) % RingSize

(* no trust check                                                          *)
sendAlertRevert_NoTrustGate(sender, message, priority) ==
    IF ~isRegistered(sender) THEN "Only registered vehicles can send alerts"
    ELSE IF ~(message > 0) THEN "Message cannot be empty"
    ELSE IF ~(message <= 500) THEN "Message too long"
    ELSE OK

(* every score below 100 is low trust                                      *)
sendAlertRevert_BelowFull(sender, message, priority) ==
    IF ~isRegistered(sender) THEN "Only registered vehicles can send alerts"
    ELSE IF ~(message > 0) THEN "Message cannot be empty"
    ELSE IF ~(message <= 500) THEN "Message too long"
    ELSE IF getTrustScore(sender) < 100 /\ priority # CRITICAL
         THEN "Low trust vehicles can only send critical alerts"
    ELSE OK

(* the message is checked before the caller's registration                 *)
sendAlertRevert_MessageFirst(sender, message, priority) ==
    IF ~(message > 0) THEN "Message cannot be empty"
    ELSE IF ~(message <= 500) THEN "Message too long"
    ELSE IF ~isRegistered(sender) THEN "Only registered vehicles can send alerts"
    ELSE IF getTrustScore(sender) < 50 /\ priority # CRITICAL
         THEN "Low trust vehicles can only send critical alerts"
    ELSE OK

(* no category check                                                       *)
emergencyBroadcastRevert_AnyCategory(sender, message) ==
    IF ~isRegistered(sender) THEN "Only registered vehicles can send alerts"
    ELSE IF ~(message > 0) THEN "Message cannot be empty"
    ELSE IF ~(message <= 500) THEN "Message too long"
    ELSE OK

(* the broadcast is stored without its flag                                *)
emergencyBroadcastRecord_Unflagged(sender, message, alertType) ==
    Alert(message, sender, now, alertType, CRITICAL, FALSE)

(* no check of the origin vehicle                                          *)
relayAlertRevert_AnyOrigin(sender, message, originVehicle) ==
    IF ~isActiveEdgeServer(sender) THEN "Only active edge servers can relay alerts"
    ELSE OK

(* the relay applies the trust check of sendAlert to the origin vehicle    *)
relayAlertRevert_TrustGate(sender, message, originVehicle) ==
    IF ~isActiveEdgeServer(sender) THEN "Only active edge servers can relay alerts"
    ELSE IF ~isRegistered(originVehicle) THEN "Origin vehicle must be registered"
    ELSE IF getTrustScore(originVehicle) < 50
         THEN "Low trust vehicles can only send critical alerts"
    ELSE OK

(* the relayed alert is attributed to the relayer                          *)
relayAlertRecord_Relayer(sender, message, alertType, priority, originVehicle) ==
    Alert(message, sender, now, alertType, priority, FALSE)

(* alerts.push / alertCount++ / ring-buffer write shared by the three      *)
(* admission functions                                                     *)
storeAlert(a) ==
    /\ alerts' = Append(alerts, a)
    /\ alertCount' = alertCount + 1
    /\ recentAlerts' = (recentAlertIndex :> a) @@ recentAlerts
    /\ recentAlertIndex' = (recentAlertIndex + 1) % RingSize

sendAlertRevert(sender, message, priority) ==
    IF ~isRegistered(sender) THEN "Only registered vehicles can send alerts"
    ELSE IF ~(message > 0) THEN "Message cannot be empty"
    ELSE IF ~(message <= 500) THEN "Message too long"
    ELSE IF getTrustScore(sender) < 50 /\ priority # CRITICAL
         THEN "Low trust vehicles can only send critical alerts"
    ELSE OK

sendAlertRecord(sender, message, alertType, priority) ==
    Alert(message, sender, now, alertType, priority, FALSE)

(* Faulty variant: an admission resets the sender's trust score            *)
sendAlert_TouchTrust(sender, message, alertType, priority) ==
    LET r == sendAlertRevert(sender, message, priority) IN
    IF r # OK THEN Revert
    ELSE /\ storeAlert(sendAlertRecord(sender, message, alertType, priority))
         /\ vehicles' = [vehicles EXCEPT ![sender].trustScore = 100]
         /\ UNCHANGED <<infraVars, now>>

sendAlert(sender, message, alertType, priority) ==
    LET r == sendAlertRevert(sender, message, priority) IN
    IF r # OK THEN Revert
    ELSE /\ storeAlert(sendAlertRecord(sender, message, alertType, priority))
         /\ UNCHANGED <<registryVars, infraVars, now>>

emergencyBroadcastRevert(sender, message) ==
    IF ~isRegistered(sender) THEN "Only registered vehicles can send alerts"
    ELSE IF ~isEmergencyVehicle(sender)
         THEN "Only emergency vehicles can use emergency broadcast"
    ELSE IF ~(message > 0) THEN "Message cannot be empty"
    ELSE IF ~(message <= 500) THEN "Message too long"
    ELSE OK

emergencyBroadcastRecord(sender, message, alertType) ==
    Alert(message, sender, now, alertType, CRITICAL, TRUE)

emergencyBroadcast(sender, message, alertType) ==
    LET r == emergencyBroadcastRevert(sender, message) IN
    IF r # OK THEN Revert
    ELSE /\ storeAlert(emergencyBroadcastRecord(sender, message, alertType))
         /\ UNCHANGED <<registryVars, infraVars, now>>

relayAlertRevert(sender, message, originVehicle) ==
    IF ~isActiveEdgeServer(sender) THEN "Only active edge servers can relay alerts"
    ELSE IF ~isRegistered(originVehicle) THEN "Origin vehicle must be registered"
    ELSE OK

relayAlertRecord(sender, message, alertType, priority, originVehicle) ==
    Alert(message, originVehicle, now, alertType, priority, FALSE)

relayAlert(sender, message, alertType, priority, originVehicle) ==
    LET r == relayAlertRevert(sender, message, originVehicle) IN
    IF r # OK THEN Revert
    ELSE /\ storeAlert(relayAlertRecord(sender, message, alertType, priority,
                                        originVehicle))
         /\ UNCHANGED <<registryVars, infraVars, now>>

(* Views                                                                   *)
(* The events a mined call emits, in order                                 *)
AlertSent(message, sender, alertType, priority, isEmergencyBroadcast) ==
    [name |-> "AlertSent", message |-> message, sender |-> sender,
     alertType |-> alertType, priority |-> priority,
     isEmergencyBroadcast |-> isEmergencyBroadcast]

EmergencyAlertBroadcast(message, emergencyVehicle, timestamp) ==
    [name |-> "EmergencyAlertBroadcast", message |-> message,
     emergencyVehicle |-> emergencyVehicle, timestamp |-> timestamp]

sendAlertEmits(sender, message, alertType, priority) ==
    <<AlertSent(message, sender, alertType, priority, FALSE)>>

emergencyBroadcastEmits(sender, message, alertType) ==
    <<EmergencyAlertBroadcast(message, sender, now),
      AlertSent(message, sender, alertType, CRITICAL, TRUE)>>

relayAlertEmits(sender, message, alertType, priority, originVehicle) ==
    <<AlertSent(message, originVehicle, alertType, priority, FALSE)>>

getAlerts == alerts

getRecentAlerts == [i \in 1..RingSize |-> recentAlertAt(i - 1)]

(* getAlertsByType: the first loop counts the matches, the second copies   *)
(* them into an array of that length                                       *)
RECURSIVE byTypeCount(_, _)
byTypeCount(type, i) ==
    IF i > Len(alerts) THEN 0
    ELSE (IF alerts[i].alertType = type THEN 1 ELSE 0)
         + byTypeCount(type, i + 1)

RECURSIVE byTypeFill(_, _, _, _)
byTypeFill(type, i, result, index) ==
    IF i > Len(alerts) THEN result
    ELSE IF alerts[i].alertType = type
    THEN byTypeFill(type, i + 1,
                    [result EXCEPT ![index + 1] = alerts[i]], index + 1)
    ELSE byTypeFill(type, i + 1, result, index)

getAlertsByType(type) ==
    byTypeFill(type, 1, [k \in 1..byTypeCount(type, 1) |-> NoAlert], 0)

(* getEmergencyAlerts: the same two loops on isEmergencyBroadcast          *)
RECURSIVE emergencyCount(_)
emergencyCount(i) ==
    IF i > Len(alerts) THEN 0
    ELSE (IF alerts[i].isEmergencyBroadcast THEN 1 ELSE 0)
         + emergencyCount(i + 1)

RECURSIVE emergencyFill(_, _, _)
emergencyFill(i, result, index) ==
    IF i > Len(alerts) THEN result
    ELSE IF alerts[i].isEmergencyBroadcast
    THEN emergencyFill(i + 1,
                       [result EXCEPT ![index + 1] = alerts[i]], index + 1)
    ELSE emergencyFill(i + 1, result, index)

(* Faulty variant: the alerts of type EMERGENCY                            *)
getEmergencyAlerts_ByType == getAlertsByType(EMERGENCY)

getEmergencyAlerts ==
    emergencyFill(1, [k \in 1..emergencyCount(1) |-> NoAlert], 0)

getTotalAlertCount == alertCount

----------------------------------------------------------------------------
(* Edge node: decision engine                                              *)

(* A JSON value of a sensor field, tagged with its JavaScript typeof       *)
Undefined == [t |-> "undefined", n |-> 0, s |-> "", b |-> FALSE]
Num(x)    == [t |-> "number", n |-> x, s |-> "", b |-> FALSE]
Str(x)    == [t |-> "string", n |-> 0, s |-> x, b |-> FALSE]
Bool(x)   == [t |-> "boolean", n |-> 0, s |-> "", b |-> x]
Null      == [t |-> "object", n |-> 0, s |-> "", b |-> FALSE]

(* Length of the decimal text JavaScript prints for an integer             *)
RECURSIVE DecLen(_)
DecLen(x) ==
    IF x < 0 THEN 1 + DecLen(0 - x)
    ELSE IF x < 10 THEN 1
    ELSE 1 + DecLen(x \div 10)

(* Length of the strings the sensor fields take in this model              *)
StrLen(x) ==
    CASE x = "" -> 0
      [] x \in {"40"} -> 2
      [] x \in {"ICE", "FOG"} -> 3
      [] x \in {"SNOW", "fast"} -> 4
      [] x \in {"CLEAR"} -> 5
      [] x \in {"DEBRIS"} -> 6
      [] x \in {"POTHOLE"} -> 7
      [] x \in {"HEAVY_RAIN"} -> 10
      [] x \in {"CONSTRUCTION"} -> 12

(* Length of the text a template literal prints for a field value          *)
TextLen(v) ==
    CASE v.t = "number"  -> DecLen(v.n)
      [] v.t = "string"  -> StrLen(v.s)
      [] v.t = "boolean" -> IF v.b THEN 4 ELSE 5
      [] v.t = "object"  -> 4
      [] OTHER           -> 9

(* if (x): JavaScript truthiness                                           *)
Truthy(v) ==
    CASE v.t = "number"  -> v.n # 0
      [] v.t = "string"  -> v.s # ""
      [] v.t = "boolean" -> v.b
      [] OTHER           -> FALSE

(* The number a relational operator compares: ToNumber of the operand,     *)
(* nan for undefined and for text that is not a numeral                    *)
ToNumber(v) ==
    CASE v.t = "number"  -> [nan |-> FALSE, n |-> v.n]
      [] v.t = "boolean" -> [nan |-> FALSE, n |-> IF v.b THEN 1 ELSE 0]
      [] v.t = "object"  -> [nan |-> FALSE, n |-> 0]
      [] v.t = "string"  -> (CASE v.s = ""   -> [nan |-> FALSE, n |-> 0]
                               [] v.s = "40" -> [nan |-> FALSE, n |-> 40]
                               [] OTHER      -> [nan |-> TRUE, n |-> 0])
      [] OTHER           -> [nan |-> TRUE, n |-> 0]

(* Faulty variant: the threshold itself matches                            *)
Lt_OrEqual(v, k) == ~ToNumber(v).nan /\ ToNumber(v).n <= k

(* v < k and v > k of JavaScript: false when either side is NaN            *)
Lt(v, k) == ~ToNumber(v).nan /\ ToNumber(v).n < k
Gt(v, k) == ~ToNumber(v).nan /\ ToNumber(v).n > k

Decision(shouldAlert, alertType, priority, message) ==
    [shouldAlert |-> shouldAlert, alertType |-> alertType,
     priority |-> priority, message |-> message]

NoType     == "null"
NoPriority == "null"

(* Faulty variant: the speed rule is evaluated before the others           *)
analyzeAndDecide_SpeedFirst(sensorData) ==
    LET speed            == sensorData.speed
        collision        == sensorData.collision
        visibility       == sensorData.visibility
        temperature      == sensorData.temperature
        gpsCoords        == sensorData.gpsCoords
        weatherCondition == sensorData.weatherCondition
        roadCondition    == sensorData.roadCondition
    IN
    IF speed # Undefined /\ Gt(speed, 120) THEN
        Decision(TRUE, CONGESTION, LOW, 58 + TextLen(speed))
    ELSE IF collision.t = "boolean" /\ collision.b = TRUE THEN
        Decision(TRUE, ACCIDENT, CRITICAL,
                 49 + TextLen(gpsCoords.lat) + TextLen(gpsCoords.lng))
    ELSE IF visibility # Undefined /\ Lt(visibility, 50) THEN
        Decision(TRUE, HAZARD, HIGH, 65 + TextLen(visibility))
    ELSE IF temperature # Undefined /\ Lt(temperature, -5) THEN
        Decision(TRUE, HAZARD, HIGH, 57 + TextLen(temperature))
    ELSE IF temperature # Undefined /\ Gt(temperature, 50) THEN
        Decision(TRUE, HAZARD, MEDIUM, 64 + TextLen(temperature))
    ELSE IF Truthy(weatherCondition) /\ weatherCondition = Str("HEAVY_RAIN") THEN
        Decision(TRUE, HAZARD, HIGH, 73)
    ELSE IF Truthy(weatherCondition)
            /\ (weatherCondition = Str("SNOW") \/ weatherCondition = Str("ICE")) THEN
        Decision(TRUE, HAZARD, HIGH, 54 + TextLen(weatherCondition))
    ELSE IF Truthy(weatherCondition) /\ weatherCondition = Str("FOG") THEN
        Decision(TRUE, HAZARD, MEDIUM, 76)
    ELSE IF Truthy(roadCondition)
            /\ (roadCondition = Str("POTHOLE") \/ roadCondition = Str("DEBRIS")) THEN
        Decision(TRUE, HAZARD, MEDIUM, 51 + TextLen(roadCondition))
    ELSE IF Truthy(roadCondition) /\ roadCondition = Str("CONSTRUCTION") THEN
        Decision(TRUE, CONGESTION, MEDIUM, 83)
    ELSE
        Decision(FALSE, NoType, NoPriority, 46)

(* The ordered rules of analyzeAndDecide; message is the byte length of    *)
(* the text the rule builds.                                               *)
analyzeAndDecide(sensorData) ==
    LET speed            == sensorData.speed
        collision        == sensorData.collision
        visibility       == sensorData.visibility
        temperature      == sensorData.temperature
        gpsCoords        == sensorData.gpsCoords
        weatherCondition == sensorData.weatherCondition
        roadCondition    == sensorData.roadCondition
    IN
    IF collision.t = "boolean" /\ collision.b = TRUE THEN
        Decision(TRUE, ACCIDENT, CRITICAL,
                 49 + TextLen(gpsCoords.lat) + TextLen(gpsCoords.lng))
    ELSE IF visibility # Undefined /\ Lt(visibility, 50) THEN
        Decision(TRUE, HAZARD, HIGH, 65 + TextLen(visibility))
    ELSE IF temperature # Undefined /\ Lt(temperature, -5) THEN
        Decision(TRUE, HAZARD, HIGH, 57 + TextLen(temperature))
    ELSE IF temperature # Undefined /\ Gt(temperature, 50) THEN
        Decision(TRUE, HAZARD, MEDIUM, 64 + TextLen(temperature))
    ELSE IF Truthy(weatherCondition) /\ weatherCondition = Str("HEAVY_RAIN") THEN
        Decision(TRUE, HAZARD, HIGH, 73)
    ELSE IF Truthy(weatherCondition)
            /\ (weatherCondition = Str("SNOW") \/ weatherCondition = Str("ICE")) THEN
        Decision(TRUE, HAZARD, HIGH, 54 + TextLen(weatherCondition))
    ELSE IF Truthy(weatherCondition) /\ weatherCondition = Str("FOG") THEN
        Decision(TRUE, HAZARD, MEDIUM, 76)
    ELSE IF Truthy(roadCondition)
            /\ (roadCondition = Str("POTHOLE") \/ roadCondition = Str("DEBRIS")) THEN
        Decision(TRUE, HAZARD, MEDIUM, 51 + TextLen(roadCondition))
    ELSE IF Truthy(roadCondition) /\ roadCondition = Str("CONSTRUCTION") THEN
        Decision(TRUE, CONGESTION, MEDIUM, 83)
    ELSE IF speed # Undefined /\ Gt(speed, 120) THEN
        Decision(TRUE, CONGESTION, LOW, 58 + TextLen(speed))
    ELSE
        Decision(FALSE, NoType, NoPriority, 46)

(* decisionEngine.validateSensorData: the typeof checks, as the set of     *)
(* fields in error                                                         *)
validateSensorDataErrors(sensorData) ==
    {f \in {"speed", "visibility", "temperature"} :
        sensorData[f].t # "undefined" /\ sensorData[f].t # "number"}
    \cup
    {f \in {"collision"} :
        sensorData[f].t # "undefined" /\ sensorData[f].t # "boolean"}

(* Faulty variant: every snapshot passes                                   *)
validateSensorData_Lenient(sensorData) ==
    [valid |-> TRUE, errors |-> {}]

validateSensorData(sensorData) ==
    [valid  |-> validateSensorDataErrors(sensorData) = {},
     errors |-> validateSensorDataErrors(sensorData)]

(* A snapshot with every field absent, and one with some fields given      *)
NoCoords == [lat |-> Undefined, lng |-> Undefined]

EmptySnapshot ==
    [speed |-> Undefined, collision |-> Undefined, visibility |-> Undefined,
     temperature |-> Undefined, gpsCoords |-> NoCoords,
     weatherCondition |-> Undefined, roadCondition |-> Undefined]

(* POST /api/alert/process-sensor-data: validate, classify and, when the   *)
(* decision asks for an alert, submit it on the path the request's         *)
(* isEmergencyVehicle flag selects.  The contract call either is mined or  *)
(* reverts; a revert is caught and reported, the ledger is untouched.      *)
processSensorData(sender, sensorData, isEmergencyVehicleFlag) ==
    IF ~validateSensorData(sensorData).valid THEN UNCHANGED chainVars
    ELSE LET decision == analyzeAndDecide(sensorData) IN
         IF decision.shouldAlert THEN
             IF isEmergencyVehicleFlag
             THEN emergencyBroadcast(sender, decision.message, decision.alertType)
             ELSE sendAlert(sender, decision.message, decision.alertType,
                            decision.priority)
         ELSE UNCHANGED chainVars

----------------------------------------------------------------------------
(* Time: a later block carries a later timestamp                           *)

tick ==
    /\ now' = now + 1
    /\ UNCHANGED <<registryVars, infraVars, ledgerVars>>

----------------------------------------------------------------------------
(* Spec: the three contracts and the sensor route, called by any address   *)
(* with inputs from the sets above, within one block timestamp.            *)

Init ==
    /\ vehicles = [a \in Addr |-> NoVehicle]
    /\ edgeServers = [a \in Addr |-> NoEdgeServer]
    /\ edgeServerAddresses = <<>>
    /\ alerts = <<>>
    /\ alertCount = 0
    /\ recentAlerts = <<>>
    /\ recentAlertIndex = 0
    /\ now = 1
    /\ pending = [n \in Nodes |-> NoCall]
    /\ outcomes = <<>>
    /\ views = [n \in Nodes |-> <<>>]

RegisterVehicle ==
    \E s \in VehicleKeys, id \in VehicleIdInputs, c \in VehicleCategory :
        registerVehicle(s, id, c) /\ UNCHANGED nodeVars

UpdateTrustScore ==
    \E s \in Addr, v \in Addr, n \in TrustInputs :
        updateTrustScore(s, v, n) /\ UNCHANGED nodeVars

UpdateVehicleCategory ==
    \E s \in Addr, v \in Addr, c \in VehicleCategory :
        updateVehicleCategory(s, v, c) /\ UNCHANGED nodeVars

RegisterEdgeServer ==
    \E s \in Addr, id \in ServerIdInputs, a \in ServerAddrs \cup {ZeroAddr},
       l \in LocationInputs :
        registerEdgeServer(s, id, a, l) /\ UNCHANGED nodeVars

UpdatePerformanceScore ==
    \E s \in Addr, a \in Addr, n \in ScoreInputs :
        updatePerformanceScore(s, a, n) /\ UNCHANGED nodeVars

DeactivateEdgeServer ==
    \E s \in Addr, a \in Addr :
        deactivateEdgeServer(s, a) /\ UNCHANGED nodeVars

ReactivateEdgeServer ==
    \E s \in Addr, a \in Addr :
        reactivateEdgeServer(s, a) /\ UNCHANGED nodeVars

SendAlert ==
    \E s \in Addr, m \in MessageInputs, t \in SendTypes, p \in SendPriorities :
        /\ alertCount < MaxAlerts
        /\ sendAlert(s, m, t, p)
        /\ UNCHANGED nodeVars

EmergencyBroadcast ==
    \E s \in Addr, m \in MessageInputs, t \in BroadcastTypes :
        /\ alertCount < MaxAlerts
        /\ emergencyBroadcast(s, m, t)
        /\ UNCHANGED nodeVars

RelayAlert ==
    \E s \in Addr, m \in MessageInputs, t \in RelayTypes, p \in RelayPriorities,
       v \in Addr \cup {ZeroAddr} :
        /\ alertCount < MaxAlerts
        /\ relayAlert(s, m, t, p, v)
        /\ UNCHANGED nodeVars

SnapshotInputs ==
    { [EmptySnapshot EXCEPT !.collision = Bool(TRUE), !.speed = Num(200)],
      [EmptySnapshot EXCEPT !.speed = Num(120)],
      [EmptySnapshot EXCEPT !.collision = Str("yes")] }

ProcessSensorData ==
    \E s \in Addr, d \in SnapshotInputs, f \in BOOLEAN :
        /\ alertCount < MaxAlerts
        /\ processSensorData(s, d, f)
        /\ UNCHANGED nodeVars

Next ==
    \/ RegisterVehicle
    \/ UpdateTrustScore
    \/ UpdateVehicleCategory
    \/ RegisterEdgeServer
    \/ UpdatePerformanceScore
    \/ DeactivateEdgeServer
    \/ ReactivateEdgeServer
    \/ SendAlert
    \/ EmergencyBroadcast
    \/ RelayAlert
    \/ ProcessSensorData

Spec == Init /\ [][Next]_vars

----------------------------------------------------------------------------
(* SpecRing: a long run of admissions that wraps the ring buffer.  One     *)
(* alert is admitted per block, blocks are one second apart (so the        *)
(* timestamp of the k-th alert is k), and the three admission paths take   *)
(* turns: sendAlert, emergencyBroadcast, relayAlert, sendAlert, ...        *)

RingRegisterVehicle ==
    /\ registerVehicle("A1", "veh", EMERGENCY_VEHICLE)
    /\ UNCHANGED nodeVars

RingRegisterEdgeServer ==
    /\ registerEdgeServer(Admin, "rsu", "A2", "loc")
    /\ UNCHANGED nodeVars

RingTick ==
    /\ now <= alertCount
    /\ tick
    /\ UNCHANGED nodeVars

RingTurn(k) ==
    /\ alertCount < MaxRingAlerts
    /\ now = alertCount + 1
    /\ alertCount % 3 = k

RingSendAlert ==
    /\ RingTurn(0)
    /\ sendAlert("A1", 500, HAZARD, LOW)
    /\ UNCHANGED nodeVars

RingEmergencyBroadcast ==
    /\ RingTurn(1)
    /\ emergencyBroadcast("A1", 500, EMERGENCY)
    /\ UNCHANGED nodeVars

RingRelayAlert ==
    /\ RingTurn(2)
    /\ relayAlert("A2", 500, CONGESTION, MEDIUM, "A1")
    /\ UNCHANGED nodeVars

NextRing ==
    \/ RingRegisterVehicle
    \/ RingRegisterEdgeServer
    \/ RingTick
    \/ RingSendAlert
    \/ RingEmergencyBroadcast
    \/ RingRelayAlert

SpecRing == Init /\ [][NextRing]_vars

----------------------------------------------------------------------------
(* SpecRelay: one vehicle whose trust score the administrator moves, and   *)
(* alerts of every priority sent by the vehicle itself or relayed for it.  *)

RelayTrustInputs == {0, 49, 50, 100}
RelayCallers     == {"A1", "A2"}
RelayOrigins     == {Admin, "A1"}

RelayRegisterVehicle ==
    \E c \in VehicleCategory :
        registerVehicle("A1", "veh", c) /\ UNCHANGED nodeVars

RelayRegisterEdgeServer ==
    /\ registerEdgeServer(Admin, "rsu", "A2", "loc")
    /\ UNCHANGED nodeVars

RelayUpdateTrustScore ==
    \E n \in RelayTrustInputs :
        updateTrustScore(Admin, "A1", n) /\ UNCHANGED nodeVars

RelayDirect ==
    \E p \in AlertPriority :
        /\ alertCount < MaxAlerts
        /\ sendAlert("A1", 500, HAZARD, p)
        /\ UNCHANGED nodeVars

RelayForward ==
    \E R \in RelayCallers, p \in AlertPriority, V \in RelayOrigins :
        /\ alertCount < MaxAlerts
        /\ relayAlert(R, 500, CONGESTION, p, V)
        /\ UNCHANGED nodeVars

NextRelay ==
    \/ RelayRegisterVehicle
    \/ RelayRegisterEdgeServer
    \/ RelayUpdateTrustScore
    \/ RelayDirect
    \/ RelayForward

SpecRelay == Init /\ [][NextRelay]_vars

----------------------------------------------------------------------------
(* SpecRegistry: the identity registry alone, every address registering    *)
(* itself and calling the administrative functions, over several blocks.   *)

RegistryTrustInputs == {0, 100, 101}

RegistryTick ==
    /\ now < MaxBlocks
    /\ tick
    /\ UNCHANGED nodeVars

RegistryRegisterVehicle ==
    \E s \in Addr, id \in VehicleIdInputs, c \in VehicleCategory :
        registerVehicle(s, id, c) /\ UNCHANGED nodeVars

RegistryUpdateTrustScore ==
    \E s \in Addr, v \in Addr, n \in RegistryTrustInputs :
        updateTrustScore(s, v, n) /\ UNCHANGED nodeVars

RegistryUpdateVehicleCategory ==
    \E s \in Addr, v \in Addr, c \in VehicleCategory :
        updateVehicleCategory(s, v, c) /\ UNCHANGED nodeVars

NextRegistry ==
    \/ RegistryTick
    \/ RegistryRegisterVehicle
    \/ RegistryUpdateTrustScore
    \/ RegistryUpdateVehicleCategory

SpecRegistry == Init /\ [][NextRegistry]_vars

----------------------------------------------------------------------------
(* SpecInfra: the edge-server registry alone, two server addresses, every  *)
(* address calling the administrative functions, over several blocks.      *)

InfraServers     == {"A1", "A2"}
InfraScoreInputs == {0, 100, 101}

InfraTick ==
    /\ now < MaxBlocks
    /\ tick
    /\ UNCHANGED nodeVars

InfraRegisterEdgeServer ==
    \E s \in Addr, id \in ServerIdInputs, a \in InfraServers \cup {ZeroAddr},
       l \in LocationInputs :
        registerEdgeServer(s, id, a, l) /\ UNCHANGED nodeVars

InfraUpdatePerformanceScore ==
    \E s \in Addr, a \in Addr, n \in InfraScoreInputs :
        updatePerformanceScore(s, a, n) /\ UNCHANGED nodeVars

InfraDeactivateEdgeServer ==
    \E s \in Addr, a \in Addr :
        deactivateEdgeServer(s, a) /\ UNCHANGED nodeVars

InfraReactivateEdgeServer ==
    \E s \in Addr, a \in Addr :
        reactivateEdgeServer(s, a) /\ UNCHANGED nodeVars

NextInfra ==
    \/ InfraTick
    \/ InfraRegisterEdgeServer
    \/ InfraUpdatePerformanceScore
    \/ InfraDeactivateEdgeServer
    \/ InfraReactivateEdgeServer

SpecInfra == Init /\ [][NextInfra]_vars

----------------------------------------------------------------------------
(* SpecNet: edge nodes sending alert transactions concurrently.  A node    *)
(* signs and sends a transaction (tx = await contract.f(...)) and waits    *)
(* for it to be mined (await tx.wait()); the chain mines the transactions  *)
(* in flight in any order, each one atomically, while the administrator    *)
(* changes the registries.  Each node has at most one call in flight.      *)
(* The run starts from the ledger as SpecRing leaves it after 99           *)
(* admissions, one slot before the ring wraps.                             *)

NetBase == RingSize - 1

(* The k-th alert of the SpecRing workload                                 *)
RingAlert(k) ==
    CASE (k - 1) % 3 = 0 -> Alert(500, "A1", k, HAZARD, LOW, FALSE)
      [] (k - 1) % 3 = 1 -> Alert(500, "A1", k, EMERGENCY, CRITICAL, TRUE)
      [] (k - 1) % 3 = 2 -> Alert(500, "A1", k, CONGESTION, MEDIUM, FALSE)

InitNet ==
    /\ vehicles = [a \in Addr |->
          IF a = "A1"
          THEN [vehicleId |-> "veh", category |-> EMERGENCY_VEHICLE,
                registered |-> TRUE, registeredTime |-> 1, trustScore |-> 100]
          ELSE NoVehicle]
    /\ edgeServers = [a \in Addr |->
          IF a = "A2"
          THEN [serverId |-> "rsu", serverAddress |-> "A2", active |-> TRUE,
                registeredTime |-> 1, location |-> "loc",
                performanceScore |-> 100]
          ELSE NoEdgeServer]
    /\ edgeServerAddresses = <<"A2">>
    /\ alerts = [k \in 1..NetBase |-> RingAlert(k)]
    /\ alertCount = NetBase
    /\ recentAlerts = [i \in 0..(NetBase - 1) |-> RingAlert(i + 1)]
    /\ recentAlertIndex = NetBase
    /\ now = NetBase + 1
    /\ pending = [n \in Nodes |-> NoCall]
    /\ outcomes = <<>>
    /\ views = [n \in Nodes |-> <<>>]

(* The message a node sends: its length tells the nodes apart              *)
NodeMessage(n) == IF n = "N1" THEN 101 ELSE 202

(* The calls a node makes: sendAlert and emergencyBroadcast with the key   *)
(* of vehicle A1, relayAlert with the key of edge server A2                *)
NetCalls(n) ==
    { [fn |-> "sendAlert", sender |-> "A1", message |-> NodeMessage(n),
       alertType |-> HAZARD, priority |-> LOW, originVehicle |-> ZeroAddr],
      [fn |-> "emergencyBroadcast", sender |-> "A1", message |-> NodeMessage(n),
       alertType |-> EMERGENCY, priority |-> LOW, originVehicle |-> ZeroAddr],
      [fn |-> "relayAlert", sender |-> "A2", message |-> NodeMessage(n),
       alertType |-> CONGESTION, priority |-> MEDIUM, originVehicle |-> "A1"] }

InFlight == {n \in Nodes : pending[n] # NoCall}

(* The contract function a transaction calls, and its revert reason        *)
callRevert(c) ==
    CASE c.fn = "sendAlert" -> sendAlertRevert(c.sender, c.message, c.priority)
      [] c.fn = "emergencyBroadcast" ->
            emergencyBroadcastRevert(c.sender, c.message)
      [] c.fn = "relayAlert" ->
            relayAlertRevert(c.sender, c.message, c.originVehicle)
      [] c.fn = "registerVehicle" ->
            registerVehicleRevert(c.sender, c.vehicleId)

(* Faulty variant: the authorization found when the call was sent decides *)
callRun_AtSend(c) ==
    IF c.atSend # OK THEN Revert
    ELSE /\ storeAlert(
              Alert(c.message,
                    IF c.fn = "relayAlert" THEN c.originVehicle ELSE c.sender,
                    now, c.alertType,
                    IF c.fn = "emergencyBroadcast" THEN CRITICAL
                    ELSE c.priority,
                    c.fn = "emergencyBroadcast"))
         /\ UNCHANGED <<registryVars, infraVars, now>>

callRun(c) ==
    CASE c.fn = "sendAlert" ->
            sendAlert(c.sender, c.message, c.alertType, c.priority)
      [] c.fn = "emergencyBroadcast" ->
            emergencyBroadcast(c.sender, c.message, c.alertType)
      [] c.fn = "relayAlert" ->
            relayAlert(c.sender, c.message, c.alertType, c.priority,
                       c.originVehicle)
      [] c.fn = "registerVehicle" ->
            registerVehicle(c.sender, c.vehicleId, c.category)

(* tx = await contract.f(...): the transaction is in flight                *)
NetSend ==
    \E n \in Nodes : \E c \in NetCalls(n) :
        /\ pending[n] = NoCall
        /\ Len(outcomes) + Cardinality(InFlight) < MaxRequests
        /\ pending' = [pending EXCEPT ![n] = c]
        /\ UNCHANGED <<chainVars, outcomes, views>>

(* The transaction is mined and tx.wait() returns: success with the        *)
(* receipt, or the error of the revert.  position is the value of          *)
(* alertCount the transaction left.                                        *)
NetMine ==
    \E n \in InFlight :
        /\ callRun(pending[n])
        /\ outcomes' = Append(outcomes,
              [node |-> n, call |-> pending[n],
               success |-> callRevert(pending[n]) = OK,
               error |-> callRevert(pending[n]),
               position |-> alertCount'])
        /\ pending' = [pending EXCEPT ![n] = NoCall]
        /\ UNCHANGED views

NetUpdateTrustScore ==
    \E n \in {0, 100} :
        /\ getTrustScore("A1") # n
        /\ updateTrustScore(Admin, "A1", n)
        /\ UNCHANGED nodeVars

NetDeactivateEdgeServer ==
    /\ isActiveEdgeServer("A2")
    /\ deactivateEdgeServer(Admin, "A2")
    /\ UNCHANGED nodeVars

NetReactivateEdgeServer ==
    /\ ~isActiveEdgeServer("A2")
    /\ reactivateEdgeServer(Admin, "A2")
    /\ UNCHANGED nodeVars

NextNet ==
    \/ NetSend
    \/ NetMine
    \/ NetUpdateTrustScore
    \/ NetDeactivateEdgeServer
    \/ NetReactivateEdgeServer

SpecNet == InitNet /\ [][NextNet]_vars

----------------------------------------------------------------------------
(* SpecReaders: edge nodes reading the history through blockchain.js       *)
(* getAlerts while alerts are admitted.                                    *)

(* new Date(ms).toISOString(): the text is represented by the instant it   *)
(* denotes                                                                 *)
toISOString(ms) == <<"ISO", ms>>

(* blockchain.js getAlerts: one eth_call, then the map over the result     *)
nodeGetAlerts ==
    [i \in 1..Len(getAlerts) |->
        [message |-> getAlerts[i].message,
         sender |-> getAlerts[i].sender,
         timestamp |-> toISOString(getAlerts[i].timestamp * 1000),
         alertType |-> getAlerts[i].alertType,
         priority |-> getAlerts[i].priority,
         isEmergencyBroadcast |-> getAlerts[i].isEmergencyBroadcast]]

ReadersRegisterVehicle ==
    /\ registerVehicle("A1", "veh", EMERGENCY_VEHICLE)
    /\ UNCHANGED nodeVars

ReadersRegisterEdgeServer ==
    /\ registerEdgeServer(Admin, "rsu", "A2", "loc")
    /\ UNCHANGED nodeVars

ReadersSendAlert ==
    /\ alertCount < MaxAlerts
    /\ sendAlert("A1", 500, HAZARD, LOW)
    /\ UNCHANGED nodeVars

ReadersEmergencyBroadcast ==
    /\ alertCount < MaxAlerts
    /\ emergencyBroadcast("A1", 500, EMERGENCY)
    /\ UNCHANGED nodeVars

ReadersRelayAlert ==
    /\ alertCount < MaxAlerts
    /\ relayAlert("A2", 500, CONGESTION, MEDIUM, "A1")
    /\ UNCHANGED nodeVars

(* The call returns the mapped history                                     *)
ReadersGetAlerts ==
    \E n \in Nodes :
        /\ views' = [views EXCEPT ![n] = nodeGetAlerts]
        /\ UNCHANGED <<chainVars, pending, outcomes>>

(* The call throws (contracts not initialized, node unreachable): the      *)
(* catch block returns []                                                  *)
ReadersGetAlertsFails ==
    \E n \in Nodes :
        /\ views' = [views EXCEPT ![n] = <<>>]
        /\ UNCHANGED <<chainVars, pending, outcomes>>

NextReaders ==
    \/ ReadersRegisterVehicle
    \/ ReadersRegisterEdgeServer
    \/ ReadersSendAlert
    \/ ReadersEmergencyBroadcast
    \/ ReadersRelayAlert
    \/ ReadersGetAlerts
    \/ ReadersGetAlertsFails

SpecReaders == Init /\ [][NextReaders]_vars

----------------------------------------------------------------------------
(* SpecActivation: the administrator's script registers a road-side unit,  *)
(* sets its score, and any caller deactivates and reactivates addresses.   *)
(* outcomes is the list of the deactivate / reactivate transactions in     *)
(* the order they were mined, each with its result and with the record of  *)
(* the address (getEdgeServerInfo) before and after it.                    *)

ActivationCallers == {Admin, "A1"}
ActivationServers == {"A1", "A2"}

ActivationTick ==
    /\ now < MaxBlocks
    /\ tick
    /\ UNCHANGED nodeVars

ActivationRegisterEdgeServer ==
    /\ registerEdgeServer(Admin, "rsu", "A1", "loc")
    /\ UNCHANGED nodeVars

ActivationUpdatePerformanceScore ==
    /\ updatePerformanceScore(Admin, "A1", 0)
    /\ UNCHANGED nodeVars

ActivationDeactivate ==
    \E s \in ActivationCallers, a \in ActivationServers :
        /\ Len(outcomes) < MaxRequests
        /\ deactivateEdgeServer(s, a)
        /\ outcomes' = Append(outcomes,
              [fn |-> "deactivateEdgeServer", sender |-> s,
               serverAddress |-> a,
               error |-> deactivateEdgeServerRevert(s, a),
               before |-> edgeServers[a], after |-> edgeServers'[a]])
        /\ UNCHANGED <<pending, views>>

ActivationReactivate ==
    \E s \in ActivationCallers, a \in ActivationServers :
        /\ Len(outcomes) < MaxRequests
        /\ reactivateEdgeServer(s, a)
        /\ outcomes' = Append(outcomes,
              [fn |-> "reactivateEdgeServer", sender |-> s,
               serverAddress |-> a,
               error |-> reactivateEdgeServerRevert(s, a),
               before |-> edgeServers[a], after |-> edgeServers'[a]])
        /\ UNCHANGED <<pending, views>>

NextActivation ==
    \/ ActivationTick
    \/ ActivationRegisterEdgeServer
    \/ ActivationUpdatePerformanceScore
    \/ ActivationDeactivate
    \/ ActivationReactivate

SpecActivation == Init /\ [][NextActivation]_vars

----------------------------------------------------------------------------
(* SpecClassify: analyzeAndDecide applied by each edge node to the same    *)
(* snapshot.  pending[n] is the snapshot node n was handed, views[n] the   *)
(* decision it returned.  Every field is absent or has a value of the type *)
(* validateSensorData accepts, on both sides of every threshold.           *)

ClassifySpeeds        == {Undefined, Num(120), Num(121), Num(200)}
ClassifyCollisions    == {Undefined, Bool(FALSE), Bool(TRUE)}
ClassifyVisibilities  == {Undefined, Num(49), Num(50)}
ClassifyTemperatures  ==
    {Undefined, Num(-10), Num(-6), Num(-5), Num(50), Num(51)}
ClassifyWeathers      ==
    {Undefined, Str("HEAVY_RAIN"), Str("SNOW"), Str("ICE"), Str("FOG"),
     Str("CLEAR")}
ClassifyRoads         ==
    {Undefined, Str("POTHOLE"), Str("DEBRIS"), Str("CONSTRUCTION")}

ClassifyInputs ==
    {[speed |-> sp, collision |-> co, visibility |-> vi, temperature |-> te,
      gpsCoords |-> NoCoords, weatherCondition |-> we, roadCondition |-> ro] :
        sp \in ClassifySpeeds, co \in ClassifyCollisions,
        vi \in ClassifyVisibilities, te \in ClassifyTemperatures,
        we \in ClassifyWeathers, ro \in ClassifyRoads}

InitClassify ==
    /\ vehicles = [a \in Addr |-> NoVehicle]
    /\ edgeServers = [a \in Addr |-> NoEdgeServer]
    /\ edgeServerAddresses = <<>>
    /\ alerts = <<>>
    /\ alertCount = 0
    /\ recentAlerts = <<>>
    /\ recentAlertIndex = 0
    /\ now = 1
    /\ \E d \in ClassifyInputs : pending = [n \in Nodes |-> d]
    /\ outcomes = <<>>
    /\ views = [n \in Nodes |-> <<>>]

Classify ==
    \E n \in Nodes :
        /\ views[n] = <<>>
        /\ views' = [views EXCEPT ![n] = <<analyzeAndDecide(pending[n])>>]
        /\ UNCHANGED <<chainVars, pending, outcomes>>

NextClassify == Classify

SpecClassify == InitClassify /\ [][NextClassify]_vars

----------------------------------------------------------------------------
(* SpecRoute: the alert routes of an edge node, one invocation at a time   *)
(* per node.  pending[n] is the invocation node n is handling: its request *)
(* body, how far the handler has come ("received": before the contract     *)
(* call, "sent": awaiting tx.wait()), and whether the HTTP client has gone *)
(* away.  outcomes lists the finished invocations with the response the    *)
(* handler wrote.  The node's contracts are initialized.  The chain starts *)
(* with the vehicle of key "A1" registered as a normal vehicle; key "A2"   *)
(* is not registered.                                                      *)

InitRoute ==
    /\ vehicles = [a \in Addr |->
          IF a = "A1"
          THEN [vehicleId |-> "veh", category |-> NORMAL_VEHICLE,
                registered |-> TRUE, registeredTime |-> 1, trustScore |-> 100]
          ELSE NoVehicle]
    /\ edgeServers = [a \in Addr |-> NoEdgeServer]
    /\ edgeServerAddresses = <<>>
    /\ alerts = <<>>
    /\ alertCount = 0
    /\ recentAlerts = <<>>
    /\ recentAlertIndex = 0
    /\ now = 1
    /\ pending = [n \in Nodes |-> NoCall]
    /\ outcomes = <<>>
    /\ views = [n \in Nodes |-> <<>>]

(* Request bodies: vehiclePrivateKey is the key of sender                  *)
RouteRequests ==
    {[route |-> "send", sender |-> k, sensorData |-> EmptySnapshot,
      isEmergencyVehicle |-> FALSE] : k \in {"A1", "A2"}}
    \cup
    {[route |-> "emergency-broadcast", sender |-> "A1",
      sensorData |-> EmptySnapshot, isEmergencyVehicle |-> FALSE]}
    \cup
    {[route |-> "process-sensor-data", sender |-> "A1", sensorData |-> d,
      isEmergencyVehicle |-> f] : d \in SnapshotInputs, f \in BOOLEAN}

(* the path is chosen by the category the registry holds for the sender   *)
routeCall_ByCategory(req) ==
    CASE req.route = "send" ->
            [fn |-> "sendAlert", sender |-> req.sender, message |-> 500,
             alertType |-> HAZARD, priority |-> LOW,
             originVehicle |-> ZeroAddr]
      [] req.route = "emergency-broadcast" ->
            [fn |-> "emergencyBroadcast", sender |-> req.sender,
             message |-> 500, alertType |-> EMERGENCY, priority |-> CRITICAL,
             originVehicle |-> ZeroAddr]
      [] req.route = "process-sensor-data" ->
            IF ~validateSensorData(req.sensorData).valid THEN NoCall
            ELSE LET decision == analyzeAndDecide(req.sensorData) IN
                 IF ~decision.shouldAlert THEN NoCall
                 ELSE IF isEmergencyVehicle(req.sender)
                 THEN [fn |-> "emergencyBroadcast", sender |-> req.sender,
                       message |-> decision.message,
                       alertType |-> decision.alertType,
                       priority |-> CRITICAL, originVehicle |-> ZeroAddr]
                 ELSE [fn |-> "sendAlert", sender |-> req.sender,
                       message |-> decision.message,
                       alertType |-> decision.alertType,
                       priority |-> decision.priority,
                       originVehicle |-> ZeroAddr]

(* The contract call a handler makes for a request, NoCall when it         *)
(* answers without one                                                     *)
routeCall(req) ==
    CASE req.route = "send" ->
            [fn |-> "sendAlert", sender |-> req.sender, message |-> 500,
             alertType |-> HAZARD, priority |-> LOW,
             originVehicle |-> ZeroAddr]
      [] req.route = "emergency-broadcast" ->
            [fn |-> "emergencyBroadcast", sender |-> req.sender,
             message |-> 500, alertType |-> EMERGENCY, priority |-> CRITICAL,
             originVehicle |-> ZeroAddr]
      [] req.route = "process-sensor-data" ->
            IF ~validateSensorData(req.sensorData).valid THEN NoCall
            ELSE LET decision == analyzeAndDecide(req.sensorData) IN
                 IF ~decision.shouldAlert THEN NoCall
                 ELSE IF req.isEmergencyVehicle
                 THEN [fn |-> "emergencyBroadcast", sender |-> req.sender,
                       message |-> decision.message,
                       alertType |-> decision.alertType,
                       priority |-> CRITICAL, originVehicle |-> ZeroAddr]
                 ELSE [fn |-> "sendAlert", sender |-> req.sender,
                       message |-> decision.message,
                       alertType |-> decision.alertType,
                       priority |-> decision.priority,
                       originVehicle |-> ZeroAddr]

(* The response of process-sensor-data when it makes no contract call      *)
routeAnswer(req) ==
    IF ~validateSensorData(req.sensorData).valid
    THEN [status |-> 400, error |-> "Invalid sensor data",
          details |-> validateSensorData(req.sensorData).errors]
    ELSE [status |-> 200, processed |-> TRUE, alert_triggered |-> FALSE]

(* What blockchain.js returns to the route: the receipt, or the message    *)
(* of whatever error the catch block caught                                *)
wrapperResult(error) ==
    IF error = OK THEN [success |-> TRUE]
    ELSE [success |-> FALSE, error |-> error]

(* The response a route writes once the wrapper has returned               *)
routeResponse(req, result) ==
    IF req.route = "process-sensor-data"
    THEN [status |-> 200, processed |-> TRUE, alert_triggered |-> TRUE,
          blockchainResult |-> result]
    ELSE IF result.success THEN [status |-> 200]
    ELSE [status |-> 400, error |-> result.error]

NetworkError == "network error"

RouteHandling == {n \in Nodes : pending[n] # NoCall}

RouteReceive ==
    \E n \in Nodes, r \in RouteRequests :
        /\ pending[n] = NoCall
        /\ Len(outcomes) + Cardinality(RouteHandling) < MaxCalls
        /\ pending' = [pending EXCEPT ![n] =
              [req |-> r, stage |-> "received", abandoned |-> FALSE]]
        /\ UNCHANGED <<chainVars, outcomes, views>>

(* The client disconnects; no handler of these routes listens for it       *)
RouteAbandon ==
    \E n \in RouteHandling :
        /\ ~pending[n].abandoned
        /\ pending' = [pending EXCEPT ![n].abandoned = TRUE]
        /\ UNCHANGED <<chainVars, outcomes, views>>

(* Validation fails or the decision is "no alert": respond, no call made   *)
RouteAnswer ==
    \E n \in RouteHandling :
        /\ pending[n].stage = "received"
        /\ routeCall(pending[n].req) = NoCall
        /\ outcomes' = Append(outcomes,
              [node |-> n, req |-> pending[n].req, calls |-> 0,
               cause |-> "none", admitted |-> FALSE,
               abandoned |-> pending[n].abandoned,
               response |-> routeAnswer(pending[n].req)])
        /\ pending' = [pending EXCEPT ![n] = NoCall]
        /\ UNCHANGED <<chainVars, views>>

(* tx = await contract.f(...) sends the transaction                        *)
RouteSubmit ==
    \E n \in RouteHandling :
        /\ pending[n].stage = "received"
        /\ routeCall(pending[n].req) # NoCall
        /\ pending' = [pending EXCEPT ![n].stage = "sent"]
        /\ UNCHANGED <<chainVars, outcomes, views>>

(* tx = await contract.f(...) throws: the JSON-RPC endpoint is unreachable *)
(* or does not answer in time                                              *)
RouteUnreachable ==
    \E n \in RouteHandling :
        /\ pending[n].stage = "received"
        /\ routeCall(pending[n].req) # NoCall
        /\ outcomes' = Append(outcomes,
              [node |-> n, req |-> pending[n].req, calls |-> 1,
               cause |-> "unreachable", admitted |-> FALSE,
               abandoned |-> pending[n].abandoned,
               response |-> routeResponse(pending[n].req,
                                          wrapperResult(NetworkError))])
        /\ pending' = [pending EXCEPT ![n] = NoCall]
        /\ UNCHANGED <<chainVars, views>>

(* The transaction is executed; tx.wait() returns the receipt or throws    *)
(* the revert                                                              *)
RouteMined ==
    \E n \in RouteHandling :
        /\ pending[n].stage = "sent"
        /\ callRun(routeCall(pending[n].req))
        /\ outcomes' = Append(outcomes,
              LET error == callRevert(routeCall(pending[n].req)) IN
              [node |-> n, req |-> pending[n].req, calls |-> 1,
               cause |-> IF error = OK THEN "none" ELSE error,
               admitted |-> error = OK,
               abandoned |-> pending[n].abandoned,
               response |-> routeResponse(pending[n].req,
                                          wrapperResult(error))])
        /\ pending' = [pending EXCEPT ![n] = NoCall]
        /\ UNCHANGED views

(* The transaction is executed, and tx.wait() throws because the JSON-RPC  *)
(* endpoint stops answering before the node has the receipt: the catch     *)
(* block returns that error                                                *)
RouteReceiptLost ==
    \E n \in RouteHandling :
        /\ pending[n].stage = "sent"
        /\ callRun(routeCall(pending[n].req))
        /\ outcomes' = Append(outcomes,
              [node |-> n, req |-> pending[n].req, calls |-> 1,
               cause |-> "unreachable",
               admitted |-> callRevert(routeCall(pending[n].req)) = OK,
               abandoned |-> pending[n].abandoned,
               response |-> routeResponse(pending[n].req,
                                          wrapperResult(NetworkError))])
        /\ pending' = [pending EXCEPT ![n] = NoCall]
        /\ UNCHANGED views

NextRoute ==
    \/ RouteReceive
    \/ RouteAbandon
    \/ RouteAnswer
    \/ RouteSubmit
    \/ RouteUnreachable
    \/ RouteMined
    \/ RouteReceiptLost

SpecRoute == InitRoute /\ [][NextRoute]_vars

----------------------------------------------------------------------------
(* SpecEvents: the admission functions with the event log of AlertSystem.  *)
(* outcomes is the list of the events the contract has emitted; a call     *)
(* that reverts emits none.                                                *)

EventsSenders == {"A1", "A2"}

EventsTick ==
    /\ now < MaxBlocks
    /\ tick
    /\ UNCHANGED nodeVars

EventsRegisterVehicle ==
    /\ registerVehicle("A1", "veh", EMERGENCY_VEHICLE)
    /\ UNCHANGED nodeVars

EventsRegisterEdgeServer ==
    /\ registerEdgeServer(Admin, "rsu", "A2", "loc")
    /\ UNCHANGED nodeVars

EventsSendAlert ==
    \E s \in EventsSenders, p \in SendPriorities :
        /\ alertCount < MaxAlerts
        /\ sendAlert(s, 500, HAZARD, p)
        /\ outcomes' = IF sendAlertRevert(s, 500, p) = OK
                       THEN outcomes \o sendAlertEmits(s, 500, HAZARD, p)
                       ELSE outcomes
        /\ UNCHANGED <<pending, views>>

EventsEmergencyBroadcast ==
    \E s \in EventsSenders :
        /\ alertCount < MaxAlerts
        /\ emergencyBroadcast(s, 500, EMERGENCY)
        /\ outcomes' = IF emergencyBroadcastRevert(s, 500) = OK
                       THEN outcomes \o emergencyBroadcastEmits(s, 500, EMERGENCY)
                       ELSE outcomes
        /\ UNCHANGED <<pending, views>>

EventsRelayAlert ==
    \E s \in EventsSenders, v \in EventsSenders :
        /\ alertCount < MaxAlerts
        /\ relayAlert(s, 500, CONGESTION, MEDIUM, v)
        /\ outcomes' = IF relayAlertRevert(s, 500, v) = OK
                       THEN outcomes \o
                            relayAlertEmits(s, 500, CONGESTION, MEDIUM, v)
                       ELSE outcomes
        /\ UNCHANGED <<pending, views>>

NextEvents ==
    \/ EventsTick
    \/ EventsRegisterVehicle
    \/ EventsRegisterEdgeServer
    \/ EventsSendAlert
    \/ EventsEmergencyBroadcast
    \/ EventsRelayAlert

SpecEvents == Init /\ [][NextEvents]_vars

----------------------------------------------------------------------------
(* SpecFilters: alerts of every type admitted on the three paths, and      *)
(* readers calling getAlertsByType and getEmergencyAlerts.  views[n] is    *)
(* the last result reader n obtained, with the call it came from and the   *)
(* value of alertCount when it was made.                                   *)

FiltersTypes == {ACCIDENT, HAZARD, EMERGENCY}

FiltersRegisterVehicle ==
    /\ registerVehicle("A1", "veh", EMERGENCY_VEHICLE)
    /\ UNCHANGED nodeVars

FiltersRegisterEdgeServer ==
    /\ registerEdgeServer(Admin, "rsu", "A2", "loc")
    /\ UNCHANGED nodeVars

FiltersSendAlert ==
    \E t \in FiltersTypes :
        /\ alertCount < MaxAlerts
        /\ sendAlert("A1", 500, t, LOW)
        /\ UNCHANGED nodeVars

FiltersEmergencyBroadcast ==
    \E t \in FiltersTypes :
        /\ alertCount < MaxAlerts
        /\ emergencyBroadcast("A1", 500, t)
        /\ UNCHANGED nodeVars

FiltersRelayAlert ==
    /\ alertCount < MaxAlerts
    /\ relayAlert("A2", 500, CONGESTION, MEDIUM, "A1")
    /\ UNCHANGED nodeVars

FiltersGetAlertsByType ==
    \E n \in Nodes, t \in AlertType :
        /\ views' = [views EXCEPT ![n] =
              <<[fn |-> "getAlertsByType", type |-> t,
                 result |-> getAlertsByType(t), count |-> alertCount]>>]
        /\ UNCHANGED <<chainVars, pending, outcomes>>

FiltersGetEmergencyAlerts ==
    \E n \in Nodes :
        /\ views' = [views EXCEPT ![n] =
              <<[fn |-> "getEmergencyAlerts", type |-> EMERGENCY,
                 result |-> getEmergencyAlerts, count |-> alertCount]>>]
        /\ UNCHANGED <<chainVars, pending, outcomes>>

NextFilters ==
    \/ FiltersRegisterVehicle
    \/ FiltersRegisterEdgeServer
    \/ FiltersSendAlert
    \/ FiltersEmergencyBroadcast
    \/ FiltersRelayAlert
    \/ FiltersGetAlertsByType
    \/ FiltersGetEmergencyAlerts

SpecFilters == Init /\ [][NextFilters]_vars

----------------------------------------------------------------------------
(* SpecSession: edge nodes registering a vehicle through                   *)
(* blockchain.registerVehicle and then sending its alerts.  A node issues  *)
(* its next call once the previous one has returned; outcomes lists the    *)
(* calls in the order they returned.                                       *)

SessionCalls ==
    {[fn |-> "registerVehicle", sender |-> "A1", vehicleId |-> "veh",
      category |-> c, message |-> 0, alertType |-> ACCIDENT,
      priority |-> LOW, originVehicle |-> ZeroAddr] : c \in VehicleCategory}
    \cup
    {[fn |-> "sendAlert", sender |-> "A1", vehicleId |-> "",
      category |-> NORMAL_VEHICLE, message |-> 500, alertType |-> HAZARD,
      priority |-> LOW, originVehicle |-> ZeroAddr],
     [fn |-> "emergencyBroadcast", sender |-> "A1", vehicleId |-> "",
      category |-> NORMAL_VEHICLE, message |-> 500, alertType |-> EMERGENCY,
      priority |-> CRITICAL, originVehicle |-> ZeroAddr]}

SessionSend ==
    \E n \in Nodes, c \in SessionCalls :
        /\ pending[n] = NoCall
        /\ Len(outcomes) + Cardinality(InFlight) < MaxRequests
        /\ pending' = [pending EXCEPT ![n] = c]
        /\ UNCHANGED <<chainVars, outcomes, views>>

NextSession ==
    \/ SessionSend
    \/ NetMine

SpecSession == Init /\ [][NextSession]_vars

----------------------------------------------------------------------------
(* SpecTrust: a vehicle whose trust score the administrator moves over     *)
(* the documented levels, sending alerts of every priority.                *)

TrustLevelInputs == {0, 49, 50, 99, 100}

TrustRegisterVehicle ==
    /\ registerVehicle("A1", "veh", NORMAL_VEHICLE)
    /\ UNCHANGED nodeVars

TrustUpdateTrustScore ==
    \E n \in TrustLevelInputs :
        /\ updateTrustScore(Admin, "A1", n)
        /\ UNCHANGED nodeVars

TrustSendAlert ==
    \E t \in {ACCIDENT, HAZARD}, p \in AlertPriority :
        /\ alertCount < MaxAlerts
        /\ sendAlert("A1", 500, t, p)
        /\ UNCHANGED nodeVars

NextTrust ==
    \/ TrustRegisterVehicle
    \/ TrustUpdateTrustScore
    \/ TrustSendAlert

SpecTrust == Init /\ [][NextTrust]_vars

----------------------------------------------------------------------------
(* SpecPath: process-sensor-data requests of vehicles of either category   *)
(* and of any trust score.  Each invocation is one step: the handler       *)
(* validates, classifies, makes its one contract call and responds.        *)
(* outcomes lists the finished invocations.                                *)

PathSenders == {"A1", "A2"}

PathTrustInputs == {49, 50}

PathRegisterVehicle ==
    \E s \in PathSenders, c \in VehicleCategory :
        /\ registerVehicle(s, "veh", c)
        /\ UNCHANGED nodeVars

PathUpdateTrustScore ==
    \E s \in PathSenders, n \in PathTrustInputs :
        /\ updateTrustScore(Admin, s, n)
        /\ UNCHANGED nodeVars

(* a collision (ACCIDENT, CRITICAL), speeding (CONGESTION, LOW), nothing   *)
(* to report                                                               *)
PathSnapshots ==
    { [EmptySnapshot EXCEPT !.collision = Bool(TRUE)],
      [EmptySnapshot EXCEPT !.speed = Num(200)],
      EmptySnapshot }

PathRequests ==
    {[route |-> "process-sensor-data", sender |-> s, sensorData |-> d,
      isEmergencyVehicle |-> f] :
        s \in PathSenders, d \in PathSnapshots, f \in BOOLEAN}

PathProcessSensorData ==
    \E r \in PathRequests :
        /\ Len(outcomes) < MaxCalls
        /\ IF routeCall(r) = NoCall
           THEN /\ outcomes' = Append(outcomes,
                      [node |-> "N1", req |-> r, calls |-> 0,
                       cause |-> "none", admitted |-> FALSE,
                       abandoned |-> FALSE, response |-> routeAnswer(r)])
                /\ UNCHANGED chainVars
           ELSE /\ callRun(routeCall(r))
                /\ outcomes' = Append(outcomes,
                      LET error == callRevert(routeCall(r)) IN
                      [node |-> "N1", req |-> r, calls |-> 1,
                       cause |-> IF error = OK THEN "none" ELSE error,
                       admitted |-> error = OK,
                       abandoned |-> FALSE,
                       response |-> routeResponse(r, wrapperResult(error))])
        /\ UNCHANGED <<pending, views>>

NextPath ==
    \/ PathRegisterVehicle
    \/ PathUpdateTrustScore
    \/ PathProcessSensorData

SpecPath == Init /\ [][NextPath]_vars

----------------------------------------------------------------------------
(* SpecRace: alert transactions in flight while the administrator changes  *)
(* the records they are authorized by.  Vehicle A1 starts registered as an *)
(* emergency vehicle with trust 100 and edge server A2 starts active, so   *)
(* every call of RaceCalls is authorized at the start.  A call in flight    *)
(* carries, in atSend, the verdict the contract would have given when the  *)
(* node sent it; the chain does not see that field.                        *)

InitRace ==
    /\ vehicles = [a \in Addr |->
          IF a = "A1"
          THEN [vehicleId |-> "veh", category |-> EMERGENCY_VEHICLE,
                registered |-> TRUE, registeredTime |-> 1, trustScore |-> 100]
          ELSE NoVehicle]
    /\ edgeServers = [a \in Addr |->
          IF a = "A2"
          THEN [serverId |-> "rsu", serverAddress |-> "A2", active |-> TRUE,
                registeredTime |-> 1, location |-> "loc",
                performanceScore |-> 100]
          ELSE NoEdgeServer]
    /\ edgeServerAddresses = <<"A2">>
    /\ alerts = <<>>
    /\ alertCount = 0
    /\ recentAlerts = <<>>
    /\ recentAlertIndex = 0
    /\ now = 1
    /\ pending = [n \in Nodes |-> NoCall]
    /\ outcomes = <<>>
    /\ views = [n \in Nodes |-> <<>>]

(* Node N1 sends the calls of vehicle A1, node N2 relays as edge server A2 *)
RaceCalls(n) ==
    {c \in NetCalls(n) : (c.fn = "relayAlert") = (n = "N2")}

RaceSend ==
    \E n \in Nodes : \E c \in RaceCalls(n) :
        /\ pending[n] = NoCall
        /\ Len(outcomes) + Cardinality(InFlight) < MaxRequests
        /\ pending' = [pending EXCEPT ![n] = c @@ [atSend |-> callRevert(c)]]
        /\ UNCHANGED <<chainVars, outcomes, views>>

RaceUpdateVehicleCategory ==
    \E c \in VehicleCategory :
        /\ vehicleAt("A1").category # c
        /\ updateVehicleCategory(Admin, "A1", c)
        /\ UNCHANGED nodeVars

NextRace ==
    \/ RaceSend
    \/ NetMine
    \/ NetUpdateTrustScore
    \/ RaceUpdateVehicleCategory
    \/ NetDeactivateEdgeServer
    \/ NetReactivateEdgeServer

SpecRace == InitRace /\ [][NextRace]_vars

----------------------------------------------------------------------------
(* SpecReceipts: alert transactions with their receipts.  outcomes is the  *)
(* list of the receipts of the executed calls: the call, whether it        *)
(* succeeded, the revert reason, and the events it logged.  A revert       *)
(* undoes the storage writes and the logs of the whole call.               *)

(* Faulty variant: the events of a call are logged although it reverts     *)
callEmits_Always(c) ==
    CASE c.fn = "sendAlert" ->
            sendAlertEmits(c.sender, c.message, c.alertType, c.priority)
      [] c.fn = "emergencyBroadcast" ->
            emergencyBroadcastEmits(c.sender, c.message, c.alertType)
      [] c.fn = "relayAlert" ->
            relayAlertEmits(c.sender, c.message, c.alertType, c.priority,
                            c.originVehicle)

callEmits(c) ==
    IF callRevert(c) # OK THEN <<>>
    ELSE CASE c.fn = "sendAlert" ->
                 sendAlertEmits(c.sender, c.message, c.alertType, c.priority)
           [] c.fn = "emergencyBroadcast" ->
                 emergencyBroadcastEmits(c.sender, c.message, c.alertType)
           [] c.fn = "relayAlert" ->
                 relayAlertEmits(c.sender, c.message, c.alertType, c.priority,
                                 c.originVehicle)

ReceiptsSenders == {"A1", "A2"}

(* sendAlert of vehicle A1 with every message length and of A2, which is   *)
(* no vehicle; emergencyBroadcast of both; relayAlert by edge server A2    *)
(* and by A1, which is no edge server                                      *)
ReceiptsCalls ==
    {[fn |-> "sendAlert", sender |-> "A1", message |-> m,
      alertType |-> HAZARD, priority |-> p, originVehicle |-> ZeroAddr] :
        m \in MessageInputs, p \in SendPriorities}
    \cup
    {[fn |-> f, sender |-> s, message |-> 500,
      alertType |-> IF f = "sendAlert" THEN HAZARD ELSE EMERGENCY,
      priority |-> IF f = "sendAlert" THEN LOW ELSE CRITICAL,
      originVehicle |-> ZeroAddr] :
        f \in {"sendAlert", "emergencyBroadcast"}, s \in ReceiptsSenders}
    \cup
    {[fn |-> "relayAlert", sender |-> s, message |-> 500,
      alertType |-> CONGESTION, priority |-> MEDIUM, originVehicle |-> "A1"] :
        s \in ReceiptsSenders}

ReceiptsRegisterVehicle ==
    \E c \in VehicleCategory :
        /\ registerVehicle("A1", "veh", c)
        /\ UNCHANGED nodeVars

ReceiptsCall ==
    \E c \in ReceiptsCalls :
        /\ Len(outcomes) < MaxCalls
        /\ callRun(c)
        /\ outcomes' = Append(outcomes,
              [call |-> c, success |-> callRevert(c) = OK,
               error |-> callRevert(c), logs |-> callEmits(c)])
        /\ UNCHANGED <<pending, views>>

NextReceipts ==
    \/ ReceiptsRegisterVehicle
    \/ EventsRegisterEdgeServer
    \/ NetUpdateTrustScore
    \/ NetDeactivateEdgeServer
    \/ ReceiptsCall

SpecReceipts == Init /\ [][NextReceipts]_vars

----------------------------------------------------------------------------
(* SpecFrame: the functions of the three contracts side by side, with the  *)
(* view functions called by a node.  views["N1"] is the last query and its *)
(* result.                                                                 *)

FrameTrustInputs == {49, 100}

FrameScoreInputs == {50, 100}

FrameRegisterVehicle ==
    \E c \in VehicleCategory :
        /\ registerVehicle("A1", "veh", c)
        /\ UNCHANGED nodeVars

FrameUpdateTrustScore ==
    \E n \in FrameTrustInputs :
        /\ updateTrustScore(Admin, "A1", n)
        /\ UNCHANGED nodeVars

FrameUpdatePerformanceScore ==
    \E n \in FrameScoreInputs :
        /\ updatePerformanceScore(Admin, "A2", n)
        /\ UNCHANGED nodeVars

FrameSendAlert ==
    \E p \in SendPriorities :
        /\ alertCount < MaxAlerts
        /\ sendAlert("A1", 500, HAZARD, p)
        /\ UNCHANGED nodeVars

FrameEmergencyBroadcast ==
    /\ alertCount < MaxAlerts
    /\ emergencyBroadcast("A1", 500, EMERGENCY)
    /\ UNCHANGED nodeVars

FrameRelayAlert ==
    /\ alertCount < MaxAlerts
    /\ relayAlert("A2", 500, CONGESTION, MEDIUM, "A1")
    /\ UNCHANGED nodeVars

FrameQueries ==
    {"getAlerts", "getEmergencyAlerts", "getTotalAlertCount", "isRegistered",
     "getTrustScore", "isActiveEdgeServer", "getEdgeServerCount"}

queryResult(q) ==
    CASE q = "getAlerts" -> getAlerts
      [] q = "getEmergencyAlerts" -> getEmergencyAlerts
      [] q = "getTotalAlertCount" -> getTotalAlertCount
      [] q = "isRegistered" -> isRegistered("A1")
      [] q = "getTrustScore" -> getTrustScore("A1")
      [] q = "isActiveEdgeServer" -> isActiveEdgeServer("A2")
      [] q = "getEdgeServerCount" -> getEdgeServerCount

FrameQuery ==
    \E q \in FrameQueries :
        /\ views' = [views EXCEPT !["N1"] =
                        <<[fn |-> q, result |-> queryResult(q)]>>]
        /\ UNCHANGED <<chainVars, pending, outcomes>>

NextFrame ==
    \/ FrameRegisterVehicle
    \/ FrameUpdateTrustScore
    \/ RaceUpdateVehicleCategory
    \/ EventsRegisterEdgeServer
    \/ FrameUpdatePerformanceScore
    \/ NetDeactivateEdgeServer
    \/ NetReactivateEdgeServer
    \/ FrameSendAlert
    \/ FrameEmergencyBroadcast
    \/ FrameRelayAlert
    \/ FrameQuery

SpecFrame == Init /\ [][NextFrame]_vars

----------------------------------------------------------------------------
(* SpecWrappers: the read functions of the blockchain service of node N1,  *)
(* while vehicle A1 sends emergency broadcasts.  pending["N1"] is NoCall   *)
(* until setContractAddresses has set the contract handles.  views["N1"]   *)
(* is the last result a read function returned; outcomes lists the         *)
(* results of the node's getTotalAlertCount calls in the order they        *)
(* returned.                                                               *)

ContractsNotInitialized == "Contracts not initialized"

Initialized == [fn |-> "setContractAddresses"]

(* The error the try block throws, OK when the contract call returns       *)
readError(n, reachable) ==
    IF pending[n] = NoCall THEN ContractsNotInitialized
    ELSE IF ~reachable THEN NetworkError
    ELSE OK

mapAlerts(list) ==
    [i \in 1..Len(list) |->
        [message |-> list[i].message,
         sender |-> list[i].sender,
         timestamp |-> toISOString(list[i].timestamp * 1000),
         alertType |-> list[i].alertType,
         priority |-> list[i].priority,
         isEmergencyBroadcast |-> list[i].isEmergencyBroadcast]]

(* What the try block returns                                              *)
readValue(fn) ==
    CASE fn = "isVehicleRegistered" -> isRegistered("A1")
      [] fn = "isEmergencyVehicle" -> isEmergencyVehicle("A1")
      [] fn = "getAlerts" -> mapAlerts(getAlerts)
      [] fn = "getAlertsByType" -> mapAlerts(getAlertsByType(EMERGENCY))
      [] fn = "getEmergencyAlerts" -> mapAlerts(getEmergencyAlerts)
      [] fn = "getTotalAlertCount" -> getTotalAlertCount

(* Faulty variant: the checks answer true when the call fails              *)
readDefault_FailOpen(fn) ==
    CASE fn \in {"isVehicleRegistered", "isEmergencyVehicle"} -> TRUE
      [] fn \in {"getAlerts", "getAlertsByType", "getEmergencyAlerts"} -> <<>>
      [] fn = "getTotalAlertCount" -> 0

(* What the catch block returns                                            *)
readDefault(fn) ==
    CASE fn \in {"isVehicleRegistered", "isEmergencyVehicle"} -> FALSE
      [] fn \in {"getAlerts", "getAlertsByType", "getEmergencyAlerts"} -> <<>>
      [] fn = "getTotalAlertCount" -> 0

nodeRead(fn, error) ==
    [fn |-> fn, error |-> error,
     result |-> IF error # OK THEN readDefault(fn) ELSE readValue(fn)]

WrappersReads ==
    {"isVehicleRegistered", "isEmergencyVehicle", "getAlerts",
     "getAlertsByType", "getEmergencyAlerts"}

WrappersInitialize ==
    /\ pending["N1"] = NoCall
    /\ pending' = [pending EXCEPT !["N1"] = Initialized]
    /\ UNCHANGED <<chainVars, outcomes, views>>

WrappersRead ==
    \E fn \in WrappersReads, reachable \in BOOLEAN :
        /\ views' = [views EXCEPT !["N1"] =
                        <<nodeRead(fn, readError("N1", reachable))>>]
        /\ UNCHANGED <<chainVars, pending, outcomes>>

WrappersGetTotalAlertCount ==
    \E reachable \in BOOLEAN :
        /\ Len(outcomes) < MaxRequests
        /\ outcomes' = Append(outcomes,
              nodeRead("getTotalAlertCount", readError("N1", reachable)))
        /\ UNCHANGED <<chainVars, pending, views>>

NextWrappers ==
    \/ ReadersRegisterVehicle
    \/ ReadersEmergencyBroadcast
    \/ WrappersInitialize
    \/ WrappersRead
    \/ WrappersGetTotalAlertCount

SpecWrappers == Init /\ [][NextWrappers]_vars

----------------------------------------------------------------------------
(* Properties                                                              *)

(* Values the properties quantify over                                     *)
AnyAddr        == Addr \cup {ZeroAddr}
ValidMessages  == {1, 250, 500}
LastAlert      == alerts[Len(alerts)]
Admitted(a)    == alerts' = Append(alerts, a)
Rejected       == UNCHANGED ledgerVars

LowTrustRestricted  == "Low trust vehicles can only send critical alerts"
Unauthorized        == "Only registered vehicles can send alerts"
NotEmergencyVehicle == "Only emergency vehicles can use emergency broadcast"
UnauthorizedRelayer == "Only active edge servers can relay alerts"
OriginNotRegistered == "Origin vehicle must be registered"

(* C1 - Trust gate.  For every registered vehicle (of either category)     *)
(* whose trust score is below 50 and every message of 1..500 bytes,        *)
(* sendAlert is admitted exactly when the priority is CRITICAL; with any   *)
(* other priority it reverts with the low-trust reason and the ledger      *)
(* is left as it was.                                                      *)
C1_Verdict ==
    \A A \in AnyAddr, m \in ValidMessages, p \in AlertPriority :
        (isRegistered(A) /\ getTrustScore(A) < 50) =>
            sendAlertRevert(A, m, p) =
                (IF p = CRITICAL THEN OK ELSE LowTrustRestricted)

C1_Effect ==
    ~Rejected =>
        \A A \in Addr : (isRegistered(A) /\ getTrustScore(A) < 50) =>
            \A m \in ValidMessages, t \in AlertType, p \in AlertPriority :
                sendAlert(A, m, t, p) =>
                    IF p = CRITICAL
                    THEN Admitted(Alert(m, A, now, t, CRITICAL, FALSE))
                    ELSE Rejected

C1_TrustGate == [](C1_Verdict) /\ [][C1_Effect]_vars

(* A CRITICAL alert sent directly by an EMERGENCY-category vehicle whose   *)
(* trust is below 50 is the newest entry of the ledger.                    *)
C1_Witness ==
    /\ alertCount > 0
    /\ LastAlert.priority = CRITICAL
    /\ LastAlert.alertType = HAZARD
    /\ ~LastAlert.isEmergencyBroadcast
    /\ isEmergencyVehicle(LastAlert.sender)
    /\ getTrustScore(LastAlert.sender) < 50
    /\ sendAlertRevert(LastAlert.sender, 500, LOW) = LowTrustRestricted

(* C2 - Emergency bypass.  For every registered vehicle of category        *)
(* EMERGENCY, whatever its trust score, and every message of 1..500 bytes  *)
(* and alert type, emergencyBroadcast is admitted and appends an alert     *)
(* with priority CRITICAL, isEmergencyBroadcast true and the caller as     *)
(* origin.                                                                 *)
C2_Verdict ==
    \A A \in AnyAddr, m \in ValidMessages :
        isEmergencyVehicle(A) => emergencyBroadcastRevert(A, m) = OK

C2_Effect ==
    ~Rejected =>
        \A A \in Addr : isEmergencyVehicle(A) =>
            \A m \in ValidMessages, t \in AlertType :
                emergencyBroadcast(A, m, t) =>
                    Admitted(Alert(m, A, now, t, CRITICAL, TRUE))

C2_EmergencyBypass == [](C2_Verdict) /\ [][C2_Effect]_vars

(* An emergency broadcast of a vehicle with trust 0 is the newest entry.   *)
C2_Witness ==
    /\ alertCount > 0
    /\ LastAlert.isEmergencyBroadcast
    /\ LastAlert.alertType = EMERGENCY
    /\ isEmergencyVehicle(LastAlert.sender)
    /\ getTrustScore(LastAlert.sender) = 0

(* C3 - Relay authorization.  relayAlert reverts as an unauthorized relay  *)
(* whenever the caller is not an active edge server when the call runs:    *)
(* a deactivated server, an address never registered as a server, a        *)
(* registered vehicle; after reactivation the relay is accepted again.     *)
(* An active edge server that is not a registered vehicle is turned away   *)
(* by sendAlert and emergencyBroadcast.                                    *)
C3_Verdict ==
    /\ \A R \in AnyAddr, m \in ValidMessages, V \in AnyAddr :
          ~isActiveEdgeServer(R) =>
              relayAlertRevert(R, m, V) = UnauthorizedRelayer
    /\ \A R \in AnyAddr, m \in ValidMessages, p \in AlertPriority :
          (isActiveEdgeServer(R) /\ ~isRegistered(R)) =>
              /\ sendAlertRevert(R, m, p) = Unauthorized
              /\ emergencyBroadcastRevert(R, m) = Unauthorized

C3_Effect ==
    /\ edgeServers' # edgeServers =>
          \A R \in Addr :
             /\ deactivateEdgeServer(Admin, R) =>
                   \A m \in ValidMessages, V \in AnyAddr :
                      (relayAlertRevert(R, m, V) = UnauthorizedRelayer)'
             /\ reactivateEdgeServer(Admin, R) =>
                   \A m \in ValidMessages, V \in AnyAddr :
                      isRegistered(V) => (relayAlertRevert(R, m, V) = OK)'
    /\ ~Rejected =>
          \A R \in Addr : ~isActiveEdgeServer(R) =>
             \A m \in MessageInputs, t \in AlertType, p \in AlertPriority,
                V \in AnyAddr : ~relayAlert(R, m, t, p, V)

C3_RelayAuthorization == [](C3_Verdict) /\ [][C3_Effect]_vars

(* A server that has relayed an alert is now deactivated and its relay for *)
(* a registered vehicle reverts; a registered vehicle that is no server    *)
(* is refused too.                                                         *)
C3_Witness ==
    \E R \in Addr, V \in Addr :
        /\ edgeServerAt(R).serverAddress = R
        /\ ~isActiveEdgeServer(R)
        /\ isRegistered(V) /\ ~isRegistered(R)
        /\ edgeServerAt(V).serverAddress = ZeroAddr
        /\ alertCount > 0 /\ LastAlert.alertType = CONGESTION
        /\ relayAlertRevert(R, 500, V) = UnauthorizedRelayer
        /\ relayAlertRevert(V, 500, V) = UnauthorizedRelayer

(* C4 - Relay attribution.  An alert admitted by relayAlert for an active  *)
(* relayer R and a registered vehicle V is stored with V as its origin,    *)
(* isEmergencyBroadcast false and the type and priority passed in; the     *)
(* relay reverts when V is not a registered vehicle.                       *)
C4_Verdict ==
    \A R \in AnyAddr, m \in ValidMessages, V \in AnyAddr :
        isActiveEdgeServer(R) =>
            relayAlertRevert(R, m, V) =
                (IF isRegistered(V) THEN OK ELSE OriginNotRegistered)

C4_Effect ==
    ~Rejected =>
        \A R \in Addr : isActiveEdgeServer(R) =>
            \A m \in ValidMessages, t \in AlertType, p \in AlertPriority,
               V \in AnyAddr :
                relayAlert(R, m, t, p, V) =>
                    IF isRegistered(V)
                    THEN Admitted(Alert(m, V, now, t, p, FALSE))
                    ELSE Rejected

C4_RelayAttribution == [](C4_Verdict) /\ [][C4_Effect]_vars

(* The newest entry was relayed by an active server that is not its origin *)
C4_Witness ==
    \E R \in Addr :
        /\ isActiveEdgeServer(R)
        /\ alertCount > 0
        /\ LastAlert.alertType = CONGESTION /\ LastAlert.priority = MEDIUM
        /\ LastAlert.sender # R
        /\ isRegistered(LastAlert.sender)
        /\ ~isActiveEdgeServer(LastAlert.sender)

(* C5 - Message bounds.  Every alert in the ledger, whichever of           *)
(* sendAlert, emergencyBroadcast and relayAlert admitted it, has a message *)
(* of 1..500 bytes: a call with an empty message or one longer than 500    *)
(* bytes stores nothing.                                                   *)
C5_MessageBounded ==
    \A i \in 1..Len(alerts) : alerts[i].message \in 1..500

C7_RingBeforeFull ==
    alertCount <= RingSize =>
        /\ Len(getRecentAlerts) = RingSize
        /\ SubSeq(getRecentAlerts, 1, alertCount) = alerts
        /\ \A i \in (alertCount + 1)..RingSize : getRecentAlerts[i] = NoAlert
        /\ recentAlertIndex = alertCount % RingSize

(* C7 as stated: getRecentAlerts returns exactly the N admitted alerts     *)
(* and nothing else.                                                       *)
C7_RingHoldsOnlyAdmitted ==
    alertCount <= RingSize =>
        /\ Len(getRecentAlerts) = alertCount
        /\ getRecentAlerts = alerts

(* Forty alerts admitted: entry 40 is the newest alert, entry 41 a         *)
(* zero-valued record.                                                     *)
C7_Witness ==
    /\ alertCount = 40
    /\ getRecentAlerts[40] = LastAlert
    /\ LastAlert # NoAlert
    /\ getRecentAlerts[41] = NoAlert

(* C8 - Ledger immutability.  Across every ledger or registry operation    *)
(* the earlier result of getAlerts is a prefix of the later one: no alert  *)
(* is altered, reordered or removed and the length never decreases.        *)
C8_Prefix ==
    /\ Len(getAlerts) <= Len(getAlerts')
    /\ SubSeq(getAlerts', 1, Len(getAlerts)) = getAlerts
    /\ getTotalAlertCount <= getTotalAlertCount'

C8_LedgerImmutability == [][C8_Prefix]_vars

(* Two different alerts are in the history, and the registries have been   *)
(* changed since the first one was admitted.                               *)
C8_Witness ==
    /\ Len(getAlerts) >= 2
    /\ alerts[1] # alerts[2]
    /\ alerts[1].priority = LOW
    /\ getTrustScore(alerts[1].sender) < 50
    /\ \E R \in Addr : edgeServerAt(R).serverAddress = R
                          /\ ~isActiveEdgeServer(R)

(* C9 - Emergency flag.  Every alert with isEmergencyBroadcast set has     *)
(* priority CRITICAL and was admitted while its origin was a registered    *)
(* EMERGENCY vehicle.  No call made by or for a vehicle that is ORDINARY   *)
(* when the call runs - sendAlert, relayAlert on its behalf,               *)
(* processSensorData with either value of the flag - adds such an alert.   *)
C9_Flagged ==
    \A i \in 1..Len(alerts) :
        alerts[i].isEmergencyBroadcast => alerts[i].priority = CRITICAL

C9_Admission ==
    Len(alerts') > Len(alerts) =>
        /\ LastAlert'.isEmergencyBroadcast =>
              /\ isRegistered(LastAlert'.sender)
              /\ isEmergencyVehicle(LastAlert'.sender)
        /\ \A A \in Addr : (isRegistered(A) /\ ~isEmergencyVehicle(A)) =>
              /\ \A m \in MessageInputs, t \in AlertType, p \in AlertPriority :
                    sendAlert(A, m, t, p) => ~LastAlert'.isEmergencyBroadcast
              /\ \A R \in Addr, m \in MessageInputs, t \in AlertType,
                    p \in AlertPriority :
                    relayAlert(R, m, t, p, A) => ~LastAlert'.isEmergencyBroadcast
              /\ \A d \in SnapshotInputs, f \in BOOLEAN :
                    processSensorData(A, d, f) =>
                        ~LastAlert'.isEmergencyBroadcast

C9_EmergencyFlag == [](C9_Flagged) /\ [][C9_Admission]_vars

(* A flagged alert raised from a sensor snapshot is in the ledger; its     *)
(* origin has since become an ORDINARY vehicle, whose own broadcast is now *)
(* refused.                                                                *)
C9_Witness ==
    \E i \in 1..Len(alerts) :
        /\ alerts[i].isEmergencyBroadcast
        /\ alerts[i].alertType = ACCIDENT
        /\ isRegistered(alerts[i].sender)
        /\ ~isEmergencyVehicle(alerts[i].sender)
        /\ emergencyBroadcastRevert(alerts[i].sender, 500) = NotEmergencyVehicle

(* C10 - Origin registered at admission.  The origin of every alert was a  *)
(* registered vehicle when the alert was admitted; updateTrustScore and    *)
(* updateVehicleCategory on that vehicle leave the six fields of every     *)
(* stored alert as they were.                                              *)
C10_Origins ==
    \A i \in 1..Len(alerts) : isRegistered(alerts[i].sender)

C10_Admission ==
    /\ Len(alerts') > Len(alerts) => isRegistered(LastAlert'.sender)
    /\ vehicles' # vehicles =>
          \A V \in Addr :
             /\ \A n \in TrustInputs :
                   updateTrustScore(Admin, V, n) =>
                       (alerts' = alerts /\ recentAlerts' = recentAlerts)
             /\ \A c \in VehicleCategory :
                   updateVehicleCategory(Admin, V, c) =>
                       (alerts' = alerts /\ recentAlerts' = recentAlerts)

C10_OriginRegistered == [](C10_Origins) /\ [][C10_Admission]_vars

(* A MEDIUM alert relayed for a vehicle is stored unchanged although that  *)
(* vehicle has since lost its trust and changed category.                  *)
C10_Witness ==
    \E i \in 1..Len(alerts) :
        /\ alerts[i].priority = MEDIUM
        /\ alerts[i].alertType = CONGESTION
        /\ alerts[i].message = 500
        /\ getTrustScore(alerts[i].sender) < 50
        /\ isEmergencyVehicle(alerts[i].sender)
        /\ sendAlertRevert(alerts[i].sender, 500, MEDIUM) = LowTrustRestricted

(* C11 - No trust gate on relay.  relayAlert by an active edge server for  *)
(* a registered origin vehicle is admitted with every priority and every   *)
(* trust score of the origin, a score below 50 with a priority other than  *)
(* CRITICAL included: the ledger can hold a non-CRITICAL alert attributed  *)
(* to a vehicle that sendAlert would have turned away.                     *)
C11_Verdict ==
    \A R \in AnyAddr, V \in AnyAddr, m \in ValidMessages :
        (isActiveEdgeServer(R) /\ isRegistered(V)) =>
            relayAlertRevert(R, m, V) = OK

C11_Effect ==
    ~Rejected =>
        \A R \in Addr, V \in Addr :
            (isActiveEdgeServer(R) /\ isRegistered(V)) =>
                \A m \in ValidMessages, t \in AlertType, p \in AlertPriority :
                    relayAlert(R, m, t, p, V) =>
                        Admitted(Alert(m, V, now, t, p, FALSE))

C11_RelayUngated == [](C11_Verdict) /\ [][C11_Effect]_vars

(* The newest alert is a relayed LOW alert of a vehicle with trust below   *)
(* 50: its own sendAlert with that priority reverts, a relay for it does   *)
(* not.                                                                    *)
C11_Witness ==
    \E R \in Addr :
        /\ isActiveEdgeServer(R)
        /\ alertCount > 0
        /\ LastAlert.alertType = CONGESTION /\ LastAlert.priority = LOW
        /\ getTrustScore(LastAlert.sender) < 50
        /\ sendAlertRevert(LastAlert.sender, 500, LOW) = LowTrustRestricted
        /\ relayAlertRevert(R, 500, LastAlert.sender) = OK

VehicleAlreadyRegistered == "Vehicle already registered"
InvalidVehicleId         == "Vehicle ID cannot be empty"
VehicleNotRegistered     == "Vehicle not registered"
TrustOutOfRange          == "Trust score must be 0-100"
NotAdmin                 == "Only admin can call this"

(* C14 - Registration idempotency.  For every address the first            *)
(* registerVehicle with a non-empty id succeeds and leaves the address     *)
(* registered with trust score 100 and the category given; every later     *)
(* registerVehicle of that address reverts as already registered and       *)
(* leaves its record - id, category, registration time, and a trust score  *)
(* the administrator changed in between - as it was.                       *)
C14_Verdict ==
    \A A \in AnyAddr, id \in VehicleIdInputs :
        registerVehicleRevert(A, id) =
            (IF isRegistered(A) THEN VehicleAlreadyRegistered
             ELSE IF id = "" THEN InvalidVehicleId
             ELSE OK)

C14_Effect ==
    vehicles' # vehicles =>
        \A A \in Addr, id \in VehicleIdInputs, c \in VehicleCategory :
            registerVehicle(A, id, c) =>
                /\ ~isRegistered(A)
                /\ id # ""
                /\ vehicles' = [vehicles EXCEPT ![A] =
                       [vehicleId |-> id, category |-> c, registered |-> TRUE,
                        registeredTime |-> now, trustScore |-> 100]]

C14_RegistrationIdempotent == [](C14_Verdict) /\ [][C14_Effect]_vars

(* A vehicle registered in an earlier block, whose trust the administrator *)
(* has set to 0, is refused a second registration.                         *)
C14_Witness ==
    \E A \in Addr :
        /\ isRegistered(A)
        /\ vehicleAt(A).registeredTime < now
        /\ getTrustScore(A) = 0
        /\ registerVehicleRevert(A, "veh") = VehicleAlreadyRegistered

(* C15 - Identity registry invariants.  Every address has a trust score   *)
(* in 0..100, 0 when it is not registered; every registered vehicle has a  *)
(* non-empty vehicleId; an address that is registered stays registered.    *)
C15_Records ==
    \A A \in AnyAddr :
        /\ getTrustScore(A) \in 0..100
        /\ ~isRegistered(A) => getTrustScore(A) = 0
        /\ isRegistered(A) => vehicleAt(A).vehicleId # ""

C15_Kept ==
    \A A \in Addr : isRegistered(A) => (isRegistered(A))'

C15_RegistryInvariants == [](C15_Records) /\ [][C15_Kept]_vars

(* One vehicle at trust 100, registered in an earlier block, another at 0  *)
(* after an update, a third address not registered.                        *)
C15_Witness ==
    \E A \in Addr, B \in Addr, C \in Addr :
        /\ isRegistered(A) /\ getTrustScore(A) = 100
        /\ vehicleAt(A).registeredTime < now
        /\ isRegistered(B) /\ getTrustScore(B) = 0
        /\ ~isRegistered(C) /\ getTrustScore(C) = 0

(* C16 - Administrative updates.  The trust score and the category of a    *)
(* registered vehicle change only by updateTrustScore and                  *)
(* updateVehicleCategory called by the administrator; the same calls by    *)
(* any other address, the vehicle included, revert and change nothing, as  *)
(* does updateTrustScore with a score above 100 or for an address that is  *)
(* not registered.                                                         *)
C16_Verdict ==
    \A s \in AnyAddr, V \in AnyAddr :
        /\ \A n \in RegistryTrustInputs :
              updateTrustScoreRevert(s, V, n) =
                  (IF s # Admin THEN NotAdmin
                   ELSE IF ~isRegistered(V) THEN VehicleNotRegistered
                   ELSE IF n > 100 THEN TrustOutOfRange
                   ELSE OK)
        /\ updateVehicleCategoryRevert(s, V) =
              (IF s # Admin THEN NotAdmin
               ELSE IF ~isRegistered(V) THEN VehicleNotRegistered
               ELSE OK)

C16_Effect ==
    vehicles' # vehicles =>
        /\ \A A \in Addr : isRegistered(A) =>
              /\ vehicles'[A].trustScore # vehicles[A].trustScore =>
                    \E n \in 0..100 :
                        /\ updateTrustScore(Admin, A, n)
                        /\ vehicles' = [vehicles EXCEPT ![A].trustScore = n]
              /\ vehicles'[A].category # vehicles[A].category =>
                    \E c \in VehicleCategory :
                        /\ updateVehicleCategory(Admin, A, c)
                        /\ vehicles' = [vehicles EXCEPT ![A].category = c]
        /\ \A s \in Addr \ {Admin}, V \in Addr :
              /\ \A n \in RegistryTrustInputs : ~updateTrustScore(s, V, n)
              /\ \A c \in VehicleCategory : ~updateVehicleCategory(s, V, c)

C16_AdminUpdates == [](C16_Verdict) /\ [][C16_Effect]_vars

(* A vehicle whose trust and category the administrator has changed, and   *)
(* whose own update calls revert.                                          *)
C16_Witness ==
    \E A \in Addr \ {Admin} :
        /\ isRegistered(A)
        /\ getTrustScore(A) = 0
        /\ isEmergencyVehicle(A)
        /\ updateTrustScoreRevert(A, A, 100) = NotAdmin
        /\ updateVehicleCategoryRevert(A, A) = NotAdmin
        /\ updateTrustScoreRevert(Admin, A, 101) = TrustOutOfRange

(* C17 - Administrator-only mutation.  Every change of the identity        *)
(* registry or of the edge-server registry, registration included, is the  *)
(* effect of an operation called by the administrator.                     *)
C17_AdminCall ==
    \/ \E id \in VehicleIdInputs, c \in VehicleCategory :
          registerVehicle(Admin, id, c)
    \/ \E V \in Addr, n \in TrustInputs : updateTrustScore(Admin, V, n)
    \/ \E V \in Addr, c \in VehicleCategory : updateVehicleCategory(Admin, V, c)
    \/ \E id \in ServerIdInputs, a \in Addr, l \in LocationInputs :
          registerEdgeServer(Admin, id, a, l)
    \/ \E a \in Addr, n \in ScoreInputs : updatePerformanceScore(Admin, a, n)
    \/ \E a \in Addr : deactivateEdgeServer(Admin, a)
    \/ \E a \in Addr : reactivateEdgeServer(Admin, a)

C17_AdminOnly ==
    [][(vehicles' # vehicles \/ infraVars' # infraVars) => C17_AdminCall]_vars

ServerNotActive         == "Server not active"
ScoreOutOfRange         == "Score must be 0-100"
InvalidIndex            == "Invalid index"

(* An address has a record once it was registered: serverAddress is set at *)
(* registration and no function clears it.                                 *)
HasServerRecord(a) == edgeServerAt(a).serverAddress # ZeroAddr

(* C18 - Server registration.  registerEdgeServer succeeds only for a      *)
(* non-zero address that was never registered and a non-empty serverId,    *)
(* and then sets performanceScore 100 and active; for an address that has  *)
(* a record, active or deactivated, it changes neither the record nor the  *)
(* enumeration.                                                            *)
C18_Effect ==
    infraVars' # infraVars =>
        \A a \in AnyAddr, id \in ServerIdInputs, l \in LocationInputs :
            registerEdgeServer(Admin, id, a, l) =>
                /\ a # ZeroAddr
                /\ id # ""
                /\ ~HasServerRecord(a)
                /\ edgeServers'[a].performanceScore = 100
                /\ edgeServers'[a].active

C18_RegisterOnce == [][C18_Effect]_vars

(* C19 - Enumeration.  getEdgeServerCount is the number of distinct        *)
(* addresses ever registered; getEdgeServerByIndex lists each of them      *)
(* once over 0..count-1 and reverts from count on; an index, once          *)
(* assigned, keeps its address.                                            *)
C19_Enumeration ==
    /\ getEdgeServerCount = Cardinality({a \in Addr : HasServerRecord(a)})
    /\ \A i \in 0..(getEdgeServerCount - 1) :
          /\ getEdgeServerByIndexRevert(i) = OK
          /\ HasServerRecord(getEdgeServerByIndex(i))
          /\ \A j \in 0..(getEdgeServerCount - 1) :
                i # j => getEdgeServerByIndex(i) # getEdgeServerByIndex(j)
    /\ \A i \in getEdgeServerCount..(getEdgeServerCount + 1) :
          getEdgeServerByIndexRevert(i) = InvalidIndex

(* C20 - Performance score.  updatePerformanceScore called by the          *)
(* administrator succeeds exactly for a server that is active when the     *)
(* call runs and a score of 0..100, and sets the score; for a deactivated  *)
(* server, as for an address never registered, it reverts as not active,   *)
(* and for a score above 100 as out of range, leaving the score as it was. *)
(* Every performanceScore is in 0..100 and every record has a non-empty    *)
(* serverId.                                                               *)
C20_Verdict ==
    \A a \in AnyAddr, n \in InfraScoreInputs :
        updatePerformanceScoreRevert(Admin, a, n) =
            (IF ~isActiveEdgeServer(a) THEN ServerNotActive
             ELSE IF n > 100 THEN ScoreOutOfRange
             ELSE OK)

C20_Records ==
    \A a \in AnyAddr :
        /\ getPerformanceScore(a) \in 0..100
        /\ HasServerRecord(a) => edgeServerAt(a).serverId # ""
        /\ isActiveEdgeServer(a) => HasServerRecord(a)

C20_Effect ==
    edgeServers' # edgeServers =>
        /\ \A a \in Addr, n \in InfraScoreInputs :
              updatePerformanceScore(Admin, a, n) =>
                  /\ isActiveEdgeServer(a)
                  /\ n <= 100
                  /\ edgeServers' =
                         [edgeServers EXCEPT ![a].performanceScore = n]
        /\ \A a \in Addr :
              (HasServerRecord(a) /\ ~isActiveEdgeServer(a)) =>
                  edgeServers'[a].performanceScore =
                      edgeServers[a].performanceScore
                  \/ edgeServers'[a].active

C20_ScoreOfActiveServer ==
    [](C20_Verdict /\ C20_Records) /\ [][C20_Effect]_vars

(* C20 as stated: the update succeeds for every server with a record,      *)
(* deactivated ones included.                                              *)
C20_ScoreOfAnyRegistered ==
    \A a \in AnyAddr, n \in InfraScoreInputs :
        updatePerformanceScoreRevert(Admin, a, n) =
            (IF ~HasServerRecord(a) THEN ServerNotActive
             ELSE IF n > 100 THEN ScoreOutOfRange
             ELSE OK)

(* A server whose score was set to 0 while it was active is deactivated:   *)
(* the next update of its score reverts.                                   *)
C20_Witness ==
    \E a \in Addr :
        /\ HasServerRecord(a)
        /\ ~isActiveEdgeServer(a)
        /\ getPerformanceScore(a) = 0
        /\ updatePerformanceScoreRevert(Admin, a, 100) = ServerNotActive

(* C12 - Linearizable appends.  With several edge nodes sending           *)
(* sendAlert, emergencyBroadcast and relayAlert transactions concurrently, *)
(* under every order of mining: each admitted request is in getAlerts      *)
(* exactly once, with the six fields of its record taken from that one     *)
(* request; getTotalAlertCount is the number of admitted requests; the     *)
(* k-th admitted alert is written to ring slot (k - 1) mod 100 and to no   *)
(* other slot.                                                             *)
C12_Record(c) ==
    Alert(c.message,
          IF c.fn = "relayAlert" THEN c.originVehicle ELSE c.sender,
          now,
          c.alertType,
          IF c.fn = "emergencyBroadcast" THEN CRITICAL ELSE c.priority,
          c.fn = "emergencyBroadcast")

C12_Admitted == {i \in DOMAIN outcomes : outcomes[i].success}

C12_Ledger ==
    /\ getTotalAlertCount = Len(getAlerts)
    /\ getTotalAlertCount = NetBase + Cardinality(C12_Admitted)
    /\ \A k \in 1..NetBase : getAlerts[k] = RingAlert(k)
    /\ \A i \in C12_Admitted :
          LET k == outcomes[i].position IN
          /\ k \in (NetBase + 1)..Len(getAlerts)
          /\ getAlerts[k] = C12_Record(outcomes[i].call)
          /\ getRecentAlerts[((k - 1) % RingSize) + 1] = getAlerts[k]
          /\ \A j \in C12_Admitted : j # i => outcomes[j].position # k

C12_SlotWritten ==
    Len(alerts') # Len(alerts) =>
        LET k == Len(alerts') IN
        /\ alerts' = Append(alerts, alerts'[k])
        /\ alertCount' = k
        /\ \A i \in 0..(RingSize - 1) :
              (recentAlertAt(i))' =
                  (IF i = (k - 1) % RingSize THEN alerts'[k]
                   ELSE recentAlertAt(i))

C12_LinearizableAppends == [](C12_Ledger) /\ [][C12_SlotWritten]_vars

(* Three requests of two nodes have been admitted across the wrap of the   *)
(* ring: the 100th alert is in slot 99, the 101st and 102nd in slots 0 and *)
(* 1, over the two oldest alerts.                                          *)
C12_Witness ==
    /\ Len(outcomes) = 3
    /\ \A i \in 1..3 : outcomes[i].success
    /\ \E i \in 1..3, j \in 1..3 : outcomes[i].node # outcomes[j].node
    /\ alertCount = NetBase + 3
    /\ recentAlertIndex = 2
    /\ recentAlertAt(RingSize - 1) = alerts[NetBase + 1]
    /\ recentAlertAt(0) = alerts[NetBase + 2]
    /\ recentAlertAt(1) = alerts[NetBase + 3]

IsPrefix(s, t) == Len(s) <= Len(t) /\ SubSeq(t, 1, Len(s)) = s

(* C13 - One total order for all readers.  Of any two results of getAlerts *)
(* obtained by any two readers at any times, one is a prefix of the other: *)
(* no two readers see two alerts in different orders.  (A reader's result  *)
(* does not depend on who reads, and reading changes nothing, so the last  *)
(* results of two readers stand for any two reads.)                        *)
C13_Views ==
    \A r1 \in Nodes, r2 \in Nodes :
        IsPrefix(views[r1], views[r2]) \/ IsPrefix(views[r2], views[r1])

C13_Reread ==
    \A r \in Nodes :
        /\ IsPrefix(views[r], views'[r]) \/ IsPrefix(views'[r], views[r])
        /\ IsPrefix(views'[r], nodeGetAlerts')

C13_TotalOrder == [](C13_Views) /\ [][C13_Reread]_vars

(* One node has read a history of one alert, the other, later, a history   *)
(* of two.                                                                 *)
C13_Witness ==
    /\ Len(views["N1"]) = 1
    /\ Len(views["N2"]) = 2
    /\ views["N2"][1] = views["N1"][1]
    /\ views["N2"][2] # views["N2"][1]
    /\ views["N2"][2].timestamp = toISOString(1000)

ServerAlreadyActive == "Server already active"
ServerNotRegistered == "Server not registered"

(* C21 - Activation protocol.  Called by the administrator,                *)
(* deactivateEdgeServer(a) succeeds exactly when a is active and otherwise *)
(* reverts as not active; reactivateEdgeServer(a) succeeds exactly when a  *)
(* has a record and is inactive, reverts as already active when a is       *)
(* active and as not registered when a was never registered.  A            *)
(* deactivation followed by the reactivation of the same address leaves    *)
(* the record as it was before the two (serverId, location,                *)
(* registeredTime, performanceScore, active = true), and neither call      *)
(* makes an address without a record active.                               *)
C21_Verdict ==
    \A a \in AnyAddr :
        /\ deactivateEdgeServerRevert(Admin, a) =
              (IF isActiveEdgeServer(a) THEN OK ELSE ServerNotActive)
        /\ reactivateEdgeServerRevert(Admin, a) =
              (IF isActiveEdgeServer(a) THEN ServerAlreadyActive
               ELSE IF ~HasServerRecord(a) THEN ServerNotRegistered
               ELSE OK)

C21_RoundTrip ==
    \A i \in 1..(Len(outcomes) - 1) :
        (/\ outcomes[i].fn = "deactivateEdgeServer"
         /\ outcomes[i].error = OK
         /\ outcomes[i + 1].fn = "reactivateEdgeServer"
         /\ outcomes[i + 1].error = OK
         /\ outcomes[i + 1].serverAddress = outcomes[i].serverAddress)
        => /\ outcomes[i].before.active
           /\ ~outcomes[i].after.active
           /\ outcomes[i + 1].after = outcomes[i].before

C21_Kept ==
    \A i \in DOMAIN outcomes :
        /\ outcomes[i].error # OK => outcomes[i].after = outcomes[i].before
        /\ outcomes[i].before.serverAddress = ZeroAddr =>
              (outcomes[i].error # OK /\ ~outcomes[i].after.active)

C21_Effect ==
    outcomes' # outcomes =>
        \A a \in Addr :
            /\ ~HasServerRecord(a) => ~edgeServers'[a].active
            /\ deactivateEdgeServer(Admin, a) /\ edgeServers' # edgeServers
                  => edgeServers' = [edgeServers EXCEPT ![a].active = FALSE]
            /\ reactivateEdgeServer(Admin, a) /\ edgeServers' # edgeServers
                  => edgeServers' = [edgeServers EXCEPT ![a].active = TRUE]

C21_ActivationProtocol ==
    [](C21_Verdict /\ C21_RoundTrip /\ C21_Kept) /\ [][C21_Effect]_vars

(* A server registered in block 1, whose score was set to 0, was           *)
(* deactivated and then reactivated in a later block: its record is the    *)
(* one it had; a reactivation of a never-registered address was refused.   *)
C21_Witness ==
    /\ Len(outcomes) = 3
    /\ outcomes[1].fn = "deactivateEdgeServer"
    /\ outcomes[1].error = OK
    /\ outcomes[1].before.performanceScore = 0
    /\ outcomes[1].before.registeredTime = 1
    /\ outcomes[2].fn = "reactivateEdgeServer"
    /\ outcomes[2].error = OK
    /\ outcomes[2].serverAddress = outcomes[1].serverAddress
    /\ outcomes[2].after = outcomes[1].before
    /\ now = 2
    /\ outcomes[3].fn = "reactivateEdgeServer"
    /\ outcomes[3].serverAddress = "A2"
    /\ outcomes[3].error = ServerNotRegistered

(* The rule table of the classification: the number of the first rule a   *)
(* snapshot matches, 0 when it matches none.  A rule on a number matches   *)
(* only a field that is present.                                           *)
C22_Matches(d, rule) ==
    CASE rule = 1  -> d.collision = Bool(TRUE)
      [] rule = 2  -> d.visibility.t = "number" /\ d.visibility.n < 50
      [] rule = 3  -> d.temperature.t = "number" /\ d.temperature.n < -5
      [] rule = 4  -> d.temperature.t = "number" /\ d.temperature.n > 50
      [] rule = 5  -> d.weatherCondition = Str("HEAVY_RAIN")
      [] rule = 6  -> d.weatherCondition \in {Str("SNOW"), Str("ICE")}
      [] rule = 7  -> d.weatherCondition = Str("FOG")
      [] rule = 8  -> d.roadCondition \in {Str("POTHOLE"), Str("DEBRIS")}
      [] rule = 9  -> d.roadCondition = Str("CONSTRUCTION")
      [] rule = 10 -> d.speed.t = "number" /\ d.speed.n > 120

C22_Rules == 1..10

C22_FirstRule(d) ==
    IF \E r \in C22_Rules : C22_Matches(d, r)
    THEN CHOOSE r \in C22_Rules :
            /\ C22_Matches(d, r)
            /\ \A q \in C22_Rules : C22_Matches(d, q) => r <= q
    ELSE 0

C22_Table(rule) ==
    CASE rule = 1  -> <<TRUE, ACCIDENT, CRITICAL>>
      [] rule = 2  -> <<TRUE, HAZARD, HIGH>>
      [] rule = 3  -> <<TRUE, HAZARD, HIGH>>
      [] rule = 4  -> <<TRUE, HAZARD, MEDIUM>>
      [] rule = 5  -> <<TRUE, HAZARD, HIGH>>
      [] rule = 6  -> <<TRUE, HAZARD, HIGH>>
      [] rule = 7  -> <<TRUE, HAZARD, MEDIUM>>
      [] rule = 8  -> <<TRUE, HAZARD, MEDIUM>>
      [] rule = 9  -> <<TRUE, CONGESTION, MEDIUM>>
      [] rule = 10 -> <<TRUE, CONGESTION, LOW>>
      [] OTHER     -> <<FALSE, NoType, NoPriority>>

C22_Verdict(decision) ==
    <<decision.shouldAlert, decision.alertType, decision.priority>>

(* C22 - Classification table.  On every snapshot whose fields are absent  *)
(* or take values on either side of the thresholds, analyzeAndDecide       *)
(* returns the type and priority of the lowest-numbered rule of the        *)
(* ten-rule table that matches, and shouldAlert = false with no type and   *)
(* no priority when none matches; an absent field matches no rule and the  *)
(* values 50 (visibility), -5 and 50 (temperature) and 120 (speed) do not  *)
(* match.                                                                  *)
C22_ClassifyIsTable ==
    \A n \in Nodes :
        views[n] # <<>> =>
            C22_Verdict(views[n][1]) = C22_Table(C22_FirstRule(pending[n]))

(* A snapshot on all four thresholds, with clear weather, was classified   *)
(* as needing no alert.                                                    *)
C22_Witness ==
    /\ pending["N1"].visibility = Num(50)
    /\ pending["N1"].temperature = Num(50)
    /\ pending["N1"].speed = Num(120)
    /\ pending["N1"].collision = Bool(FALSE)
    /\ pending["N1"].weatherCondition = Str("CLEAR")
    /\ pending["N1"].roadCondition = Undefined
    /\ views["N1"] # <<>>
    /\ ~views["N1"][1].shouldAlert
    /\ views["N1"][1].alertType = NoType

(* C23 - Determinism and dominance.  Two evaluations of the same snapshot *)
(* give the same decision.  A snapshot with collision = true is           *)
(* ACCIDENT/CRITICAL whatever its other fields are, speed 200 or           *)
(* temperature -10 included; one with visibility below 50 and no collision *)
(* is HAZARD/HIGH also when the temperature is below -5; and               *)
(* CONGESTION/LOW, the speed rule's result, is returned only when no       *)
(* collision, visibility, temperature, weather or road rule matches.       *)
C23_Deterministic ==
    \A n \in Nodes, m \in Nodes :
        (views[n] # <<>> /\ views[m] # <<>> /\ pending[n] = pending[m])
            => views[n] = views[m]

C23_Dominance ==
    \A n \in Nodes :
        views[n] # <<>> =>
            LET d == pending[n]
                decision == views[n][1]
            IN
            /\ d.collision = Bool(TRUE) =>
                  C22_Verdict(decision) = <<TRUE, ACCIDENT, CRITICAL>>
            /\ (d.collision # Bool(TRUE) /\ d.visibility.t = "number"
                   /\ d.visibility.n < 50) =>
                  C22_Verdict(decision) = <<TRUE, HAZARD, HIGH>>
            /\ C22_Verdict(decision) = <<TRUE, CONGESTION, LOW>> =>
                  /\ d.speed.t = "number" /\ d.speed.n > 120
                  /\ \A r \in 1..9 : ~C22_Matches(d, r)

C24_Sensor == {i \in DOMAIN outcomes :
                   outcomes[i].req.route = "process-sensor-data"}

(* C24 - Writes of processSensorData.  An invocation whose snapshot fails  *)
(* validation answers 400 with the fields in error, without classifying    *)
(* and without a contract call; one whose decision is "no alert" makes no  *)
(* contract call either; every other invocation makes exactly one contract *)
(* call and finishes with its result, whatever it is.  The ledger holds    *)
(* one alert per invocation whose call was mined, so an invocation appends *)
(* at most one alert.                                                      *)
C24_Outcomes ==
    \A i \in C24_Sensor :
        LET o == outcomes[i]
            errors == validateSensorDataErrors(o.req.sensorData)
        IN
        IF errors # {}
        THEN /\ o.calls = 0
             /\ ~o.admitted
             /\ o.response.status = 400
             /\ o.response.details = errors
        ELSE IF ~analyzeAndDecide(o.req.sensorData).shouldAlert
        THEN /\ o.calls = 0
             /\ ~o.admitted
             /\ o.response.alert_triggered = FALSE
        ELSE /\ o.calls = 1
             /\ o.response.alert_triggered = TRUE

C24_Ledger ==
    /\ Len(alerts) = Cardinality({i \in DOMAIN outcomes : outcomes[i].admitted})
    /\ alertCount = Len(alerts)

C24_Step ==
    /\ alerts' # alerts =>
          /\ Len(alerts') = Len(alerts) + 1
          /\ Len(outcomes') = Len(outcomes) + 1
          /\ outcomes'[Len(outcomes')].admitted
    /\ outcomes' # outcomes =>
          /\ Len(outcomes') = Len(outcomes) + 1
          /\ pending'[outcomes'[Len(outcomes')].node] = NoCall

C24_SensorWrites == [](C24_Outcomes /\ C24_Ledger) /\ [][C24_Step]_vars

(* One invocation was refused for its collision field, another, with a     *)
(* collision, was admitted as the only alert.                              *)
C24_Witness ==
    /\ Len(outcomes) = 2
    /\ outcomes[1].req.route = "process-sensor-data"
    /\ outcomes[1].response.status = 400
    /\ outcomes[1].response.details = {"collision"}
    /\ outcomes[2].req.route = "process-sensor-data"
    /\ outcomes[2].admitted
    /\ Len(alerts) = 1
    /\ alerts[1].alertType = ACCIDENT

(* The part of a response a client can branch on: the HTTP status and the  *)
(* fields of the body, the wording of the error message left out           *)
C25_Category(response) ==
    IF "blockchainResult" \in DOMAIN response
    THEN <<response.status, DOMAIN response,
           response.blockchainResult.success,
           DOMAIN response.blockchainResult>>
    ELSE <<response.status, DOMAIN response>>

C25_Authorization == {Unauthorized, NotEmergencyVehicle, LowTrustRestricted}

(* C25 - Error categories.  On each route, the response to a request whose *)
(* contract call failed because the chain was unreachable is of a category *)
(* other than that of the response to a request the contract rejected for  *)
(* authorization.                                                          *)
C25_DistinctCategories ==
    \A i \in DOMAIN outcomes, j \in DOMAIN outcomes :
        (/\ outcomes[i].cause = "unreachable"
         /\ outcomes[j].cause \in C25_Authorization
         /\ outcomes[i].req.route = outcomes[j].req.route)
        => C25_Category(outcomes[i].response)
              # C25_Category(outcomes[j].response)

(* C29 - Cancellation.  An invocation of process-sensor-data whose client  *)
(* went away before the handler learned that the alert was admitted has    *)
(* left no alert in the ledger.                                            *)
C29_AbandonedLeavesNoAlert ==
    \A i \in DOMAIN outcomes :
        (/\ outcomes[i].req.route = "process-sensor-data"
         /\ outcomes[i].abandoned)
        => ~outcomes[i].admitted

(* An event that carries the record of the alert at position k            *)
C26_Carries(e, k) ==
    /\ {"message", "sender", "timestamp", "alertType", "priority",
        "isEmergencyBroadcast", "position"} \subseteq DOMAIN e
    /\ e.message = alerts[k].message
    /\ e.sender = alerts[k].sender
    /\ e.timestamp = alerts[k].timestamp
    /\ e.alertType = alerts[k].alertType
    /\ e.priority = alerts[k].priority
    /\ e.isEmergencyBroadcast = alerts[k].isEmergencyBroadcast
    /\ e.position = k

(* C26 - Notification events.  The contract has emitted exactly one event  *)
(* per admitted alert, on every admission path, the k-th event carrying    *)
(* the six fields of the k-th alert and the position k; rejected calls     *)
(* have emitted none.                                                      *)
C26_OneEventPerAlert ==
    /\ Len(outcomes) = Len(alerts)
    /\ \A k \in DOMAIN alerts : C26_Carries(outcomes[k], k)

C27_OfType(s, t)  == SelectSeq(s, LAMBDA a : a.alertType = t)
C27_Flagged(s)    == SelectSeq(s, LAMBDA a : a.isEmergencyBroadcast)

RECURSIVE C27_Sum(_)
C27_Sum(types) ==
    IF types = {} THEN 0
    ELSE LET t == CHOOSE x \in types : TRUE IN
         Len(getAlertsByType(t)) + C27_Sum(types \ {t})

C30_Verdict ==
    \A a \in Addr, p \in AlertPriority :
        isRegistered(a) =>
            sendAlertRevert(a, 500, p) =
                (IF getTrustScore(a) < 50 /\ p # CRITICAL
                 THEN LowTrustRestricted ELSE OK)

C30_Effect ==
    alerts' # alerts =>
        /\ alerts' = Append(alerts, alerts'[Len(alerts')])
        /\ alerts'[Len(alerts')].sender = "A1"
        /\ getTrustScore("A1") >= 50
              \/ alerts'[Len(alerts')].priority = CRITICAL

MessageEmpty   == "Message cannot be empty"
MessageTooLong == "Message too long"

(* C31 - sendAlert outcome table.  The outcome is decided in this order:   *)
(* unauthorized when the caller is not a registered vehicle, whatever the  *)
(* message; else invalid message when its length is 0 or above 500,        *)
(* whatever the trust score; else low-trust restricted when the trust is   *)
(* below 50 and the priority is not CRITICAL; else admitted, so a caller   *)
(* with trust 50 or more is admitted with every priority.  An admission    *)
(* appends exactly one alert (message, caller, now, type, priority, false) *)
(* which getAlerts and getRecentAlerts hold once the call is done.         *)
C31_Verdict ==
    \A A \in AnyAddr, m \in MessageInputs \cup ValidMessages,
       p \in AlertPriority :
        sendAlertRevert(A, m, p) =
            (IF ~isRegistered(A) THEN Unauthorized
             ELSE IF m = 0 THEN MessageEmpty
             ELSE IF m > 500 THEN MessageTooLong
             ELSE IF getTrustScore(A) < 50 /\ p # CRITICAL
                  THEN LowTrustRestricted
             ELSE OK)

C31_Effect ==
    ~Rejected =>
        \A A \in Addr, m \in MessageInputs, t \in AlertType,
           p \in AlertPriority :
            sendAlert(A, m, t, p) =>
                /\ isRegistered(A)
                /\ m \in 1..500
                /\ getTrustScore(A) >= 50 \/ p = CRITICAL
                /\ Admitted(Alert(m, A, now, t, p, FALSE))
                /\ alertCount' = alertCount + 1
                /\ getAlerts'[Len(getAlerts')] = Alert(m, A, now, t, p, FALSE)
                /\ getRecentAlerts'[recentAlertIndex + 1] =
                       Alert(m, A, now, t, p, FALSE)

C32_Step ==
    outcomes' # outcomes =>
        LET o == outcomes'[Len(outcomes')]
            s == o.req.sender
            decision == analyzeAndDecide(o.req.sensorData)
        IN
        o.calls = 1 =>
            IF o.req.isEmergencyVehicle
            THEN IF isRegistered(s)
                    /\ vehicleAt(s).category = EMERGENCY_VEHICLE
                 THEN /\ o.admitted
                      /\ Admitted(Alert(decision.message, s, now,
                                        decision.alertType, CRITICAL, TRUE))
                 ELSE /\ ~o.admitted
                      /\ Rejected
                      /\ o.cause = IF isRegistered(s)
                                   THEN NotEmergencyVehicle ELSE Unauthorized
            ELSE IF isRegistered(s)
                    /\ (getTrustScore(s) >= 50
                        \/ decision.priority = CRITICAL)
                 THEN /\ o.admitted
                      /\ Admitted(Alert(decision.message, s, now,
                                        decision.alertType,
                                        decision.priority, FALSE))
                 ELSE /\ ~o.admitted
                      /\ Rejected
                      /\ o.cause = IF isRegistered(s)
                                   THEN LowTrustRestricted ELSE Unauthorized

C32_FlagChoosesPath == [][C32_Step]_vars

(* An emergency vehicle with trust 49 and the flag clear had its speeding  *)
(* alert rejected; an ordinary vehicle with the flag set reported a        *)
(* collision; the ledger is empty.                                         *)
C32_Witness ==
    /\ Len(outcomes) = 2
    /\ alerts = <<>>
    /\ isEmergencyVehicle("A1")
    /\ getTrustScore("A1") = 49
    /\ outcomes[1].req.sender = "A1"
    /\ ~outcomes[1].req.isEmergencyVehicle
    /\ analyzeAndDecide(outcomes[1].req.sensorData).priority = LOW
    /\ outcomes[1].cause = LowTrustRestricted
    /\ isRegistered("A2")
    /\ vehicleAt("A2").category = NORMAL_VEHICLE
    /\ outcomes[2].req.sender = "A2"
    /\ outcomes[2].req.isEmergencyVehicle
    /\ outcomes[2].req.sensorData.collision = Bool(TRUE)
    /\ outcomes[2].cause = NotEmergencyVehicle

(* The registries, as they are when the ledger executes call c, authorize  *)
(* it                                                                      *)
C33_Authorized(c) ==
    CASE c.fn = "sendAlert" ->
            /\ isRegistered(c.sender)
            /\ getTrustScore(c.sender) >= 50 \/ c.priority = CRITICAL
      [] c.fn = "emergencyBroadcast" ->
            /\ isRegistered(c.sender)
            /\ vehicleAt(c.sender).category = EMERGENCY_VEHICLE
      [] c.fn = "relayAlert" ->
            /\ isActiveEdgeServer(c.sender)
            /\ isRegistered(c.originVehicle)

(* C33 - Authorization is atomic with the append.  Every step that changes *)
(* the ledger executes one call in flight, appends that call's alert and   *)
(* leaves the registries as they are, and the registries of that very      *)
(* state authorize the call; a call executed in a state whose registries   *)
(* do not authorize it leaves the ledger unchanged and fails, whatever the *)
(* registries said when it was sent.  So under every interleaving of       *)
(* deactivateEdgeServer, updateTrustScore and updateVehicleCategory with   *)
(* the calls in flight, no relayAlert of an inactive relayer, no           *)
(* non-CRITICAL sendAlert of a vehicle with trust below 50 and no          *)
(* emergencyBroadcast of a non-emergency vehicle is admitted.              *)
C33_Step ==
    /\ alerts' # alerts =>
          \E n \in InFlight :
              /\ pending'[n] = NoCall
              /\ C33_Authorized(pending[n])
              /\ Admitted(C12_Record(pending[n]))
              /\ UNCHANGED <<registryVars, infraVars>>
              /\ outcomes'[Len(outcomes')].success
    /\ outcomes' # outcomes =>
          LET o == outcomes'[Len(outcomes')] IN
          /\ o.success = C33_Authorized(o.call)
          /\ o.success = (alerts' # alerts)
          /\ ~o.success => Rejected

C33_AtomicAuthorization == [][C33_Step]_vars

(* One call of each kind was authorized when it was sent and rejected when *)
(* it was executed, the administrator having lowered the trust score,      *)
(* changed the category or deactivated the server in between.              *)
C33_Witness ==
    /\ Len(outcomes) = 3
    /\ alerts = <<>>
    /\ \A i \in 1..3 : outcomes[i].call.atSend = OK
    /\ \E i \in 1..3 : /\ outcomes[i].call.fn = "sendAlert"
                       /\ outcomes[i].error = LowTrustRestricted
    /\ \E i \in 1..3 : /\ outcomes[i].call.fn = "emergencyBroadcast"
                       /\ outcomes[i].error = NotEmergencyVehicle
    /\ \E i \in 1..3 : /\ outcomes[i].call.fn = "relayAlert"
                       /\ outcomes[i].error = UnauthorizedRelayer

(* The largest position k below alertCount (counted from 0) with           *)
(* k mod 100 = i, for a slot i that has been written                       *)
C34_Newest(i) == i + RingSize * ((alertCount - 1 - i) \div RingSize)

(* C34 - Bookkeeping of the ledger.  alertCount is the length of the       *)
(* history; the ring cursor is alertCount mod 100; ring slot i has been    *)
(* written exactly when i < alertCount, and then holds the alert whose     *)
(* position k (from 0) is the largest below alertCount with k mod 100 = i. *)
C34_Bookkeeping ==
    /\ alertCount = Len(alerts)
    /\ recentAlertIndex = alertCount % RingSize
    /\ DOMAIN recentAlerts = {i \in 0..(RingSize - 1) : i < alertCount}
    /\ \A i \in DOMAIN recentAlerts :
          /\ C34_Newest(i) < alertCount
          /\ C34_Newest(i) % RingSize = i
          /\ C34_Newest(i) + RingSize >= alertCount
          /\ recentAlerts[i] = alerts[C34_Newest(i) + 1]

(* The ring has been gone round twice: slot 0 holds the 201st alert, slot  *)
(* 1 the 202nd, slot 2 still the 103rd.                                    *)
C34_Witness ==
    /\ alertCount = 2 * RingSize + 2
    /\ recentAlertIndex = 2
    /\ recentAlerts[0] = alerts[2 * RingSize + 1]
    /\ recentAlerts[1] = alerts[2 * RingSize + 2]
    /\ recentAlerts[2] = alerts[RingSize + 3]
    /\ alerts[RingSize + 3] # alerts[3]

(* C35 - Rejected calls.  A sendAlert, emergencyBroadcast or relayAlert    *)
(* that is rejected leaves the history, the counter, the ring and its      *)
(* cursor, and both registries as they were, and its receipt has no event; *)
(* a call leaves the ledger unchanged only if it was rejected.             *)
C35_Step ==
    outcomes' # outcomes =>
        LET o == outcomes'[Len(outcomes')] IN
        /\ outcomes' = Append(outcomes, o)
        /\ o.success = (o.error = OK)
        /\ ~o.success =>
              /\ o.logs = <<>>
              /\ UNCHANGED <<alerts, alertCount, recentAlerts,
                             recentAlertIndex>>
              /\ getAlerts' = getAlerts
              /\ getRecentAlerts' = getRecentAlerts
              /\ getTotalAlertCount' = getTotalAlertCount
              /\ UNCHANGED <<registryVars, infraVars>>
        /\ o.success => /\ o.logs # <<>>
                        /\ alerts' # alerts

C35_Logs ==
    \A i \in DOMAIN outcomes :
        outcomes[i].success = (outcomes[i].logs # <<>>)

C35_RejectedChangesNothing == [](C35_Logs) /\ [][C35_Step]_vars

(* A sendAlert was rejected for the trust score and an emergencyBroadcast  *)
(* for the category; neither left an alert or an event.                    *)
C35_Witness ==
    /\ Len(outcomes) = 2
    /\ alerts = <<>>
    /\ alertCount = 0
    /\ recentAlerts = <<>>
    /\ outcomes[1].call.fn = "sendAlert"
    /\ outcomes[1].error = LowTrustRestricted
    /\ outcomes[1].logs = <<>>
    /\ outcomes[2].call.fn = "emergencyBroadcast"
    /\ outcomes[2].error = NotEmergencyVehicle
    /\ outcomes[2].logs = <<>>

(* C36 - Frame conditions.  sendAlert, emergencyBroadcast and relayAlert   *)
(* never change a vehicle record or an edge-server record; the functions   *)
(* of the Identity Registry leave the Infrastructure Registry and the      *)
(* ledger unchanged; the functions of the Infrastructure Registry leave    *)
(* the Identity Registry and the ledger unchanged; a query changes none of *)
(* the three.                                                              *)
C36_AlertFunctions ==
    ledgerVars' # ledgerVars =>
        /\ UNCHANGED <<registryVars, infraVars>>
        /\ \A p \in AlertPriority :
              sendAlert("A1", 500, HAZARD, p)
                  => UNCHANGED <<registryVars, infraVars>>
        /\ emergencyBroadcast("A1", 500, EMERGENCY)
              => UNCHANGED <<registryVars, infraVars>>
        /\ relayAlert("A2", 500, CONGESTION, MEDIUM, "A1")
              => UNCHANGED <<registryVars, infraVars>>

C36_IdentityFunctions ==
    registryVars' # registryVars =>
        /\ UNCHANGED <<infraVars, ledgerVars>>
        /\ \A a \in Addr : a # "A1" => vehicles'[a] = vehicles[a]

C36_InfrastructureFunctions ==
    infraVars' # infraVars =>
        /\ UNCHANGED <<registryVars, ledgerVars>>
        /\ \A a \in Addr : a # "A2" => edgeServers'[a] = edgeServers[a]

C36_Queries ==
    views' # views =>
        /\ UNCHANGED <<registryVars, infraVars, ledgerVars>>
        /\ views'["N1"][1].result = queryResult(views'["N1"][1].fn)

C36_Frames ==
    [][/\ C36_AlertFunctions
       /\ C36_IdentityFunctions
       /\ C36_InfrastructureFunctions
       /\ C36_Queries]_vars

(* With two alerts admitted, a vehicle whose trust score was lowered and a *)
(* deactivated edge server with a lowered score, a node has read the alert *)
(* history.                                                                *)
C36_Witness ==
    /\ alertCount = 2
    /\ isRegistered("A1")
    /\ getTrustScore("A1") = 49
    /\ HasServerRecord("A2")
    /\ edgeServerAt("A2").performanceScore = 50
    /\ ~isActiveEdgeServer("A2")
    /\ views["N1"] = <<[fn |-> "getAlerts", result |-> alerts]>>

C37_Triggered == {i \in C24_Sensor :
                     /\ validateSensorDataErrors(outcomes[i].req.sensorData) = {}
                     /\ analyzeAndDecide(outcomes[i].req.sensorData).shouldAlert}

(* C37 - Response of processSensorData.  Whenever the decision is to       *)
(* alert, the response has alert_triggered = true and carries the result   *)
(* of the ledger call, admitted or not.  blockchainResult.success is false *)
(* exactly when the ledger rejected the write or the write failed, and     *)
(* then it carries the error; the invocation has then left getAlerts as it *)
(* was.                                                                    *)
C37_Responses ==
    \A i \in C37_Triggered :
        LET o == outcomes[i] IN
        /\ o.response.status = 200
        /\ o.response.alert_triggered = TRUE
        /\ "blockchainResult" \in DOMAIN o.response
        /\ o.response.blockchainResult.success = o.admitted
        /\ ~o.response.blockchainResult.success
              <=> o.cause \in C25_Authorization \cup {"unreachable"}
        /\ ~o.response.blockchainResult.success
              => o.response.blockchainResult.error =
                     (IF o.cause = "unreachable" THEN NetworkError
                      ELSE o.cause)

C37_Step ==
    outcomes' # outcomes =>
        LET o == outcomes'[Len(outcomes')] IN
        (/\ o.req.route = "process-sensor-data"
         /\ "blockchainResult" \in DOMAIN o.response)
        => IF o.response.blockchainResult.success
           THEN /\ Len(getAlerts') = Len(getAlerts) + 1
                /\ SubSeq(getAlerts', 1, Len(getAlerts)) = getAlerts
           ELSE getAlerts' = getAlerts

C37_TriggeredNotAdmitted == [](C37_Responses) /\ [][C37_Step]_vars

(* C38 - Read wrappers.  A read of the node's blockchain service always    *)
(* returns a value: when the contracts are not initialized or the call     *)
(* fails, isVehicleRegistered and isEmergencyVehicle return false,         *)
(* getAlerts, getAlertsByType and getEmergencyAlerts return the empty      *)
(* list and getTotalAlertCount returns 0; otherwise the read returns what  *)
(* the contract returns.  The ledger never shrinks and the counts of the   *)
(* successful getTotalAlertCount calls never decrease, while a failed call *)
(* in between reports 0.                                                   *)
C38_Read ==
    views' # views =>
        LET r == views'["N1"][1] IN
        /\ UNCHANGED chainVars
        /\ (r.error = ContractsNotInitialized) = (pending["N1"] = NoCall)
        /\ CASE r.fn = "isVehicleRegistered" ->
                   r.result = (r.error = OK /\ isRegistered("A1"))
             [] r.fn = "isEmergencyVehicle" ->
                   r.result = (r.error = OK /\ isEmergencyVehicle("A1"))
             [] r.fn = "getAlerts" ->
                   /\ Len(r.result) = IF r.error = OK THEN Len(alerts) ELSE 0
                   /\ r.error = OK => r.result = nodeGetAlerts
             [] r.fn = "getAlertsByType" ->
                   Len(r.result) = IF r.error = OK
                                   THEN Len(getAlertsByType(EMERGENCY)) ELSE 0
             [] r.fn = "getEmergencyAlerts" ->
                   Len(r.result) = IF r.error = OK
                                   THEN Len(getEmergencyAlerts) ELSE 0

C38_Count ==
    outcomes' # outcomes =>
        LET r == outcomes'[Len(outcomes')] IN
        /\ UNCHANGED chainVars
        /\ r.result = IF r.error = OK THEN Len(alerts) ELSE 0

C38_Ledger ==
    /\ Len(alerts') >= Len(alerts)
    /\ SubSeq(alerts', 1, Len(alerts)) = alerts
    /\ alertCount' >= alertCount

C38_Counts ==
    \A i \in DOMAIN outcomes, j \in DOMAIN outcomes :
        /\ outcomes[i].result \in 0..alertCount
        /\ outcomes[i].error # OK => outcomes[i].result = 0
        /\ (i < j /\ outcomes[i].error = OK /\ outcomes[j].error = OK)
              => outcomes[i].result <= outcomes[j].result

C38_ReadsNeverRaise ==
    [](C38_Counts) /\ [][C38_Read /\ C38_Count /\ C38_Ledger]_vars

(* The node read the count 1, then 0 from a call that failed, then 2; its  *)
(* last isVehicleRegistered failed and answered false for the registered   *)
(* vehicle.                                                                *)
C38_Witness ==
    /\ Len(outcomes) = 3
    /\ outcomes[1] = [fn |-> "getTotalAlertCount", error |-> OK, result |-> 1]
    /\ outcomes[2] = [fn |-> "getTotalAlertCount", error |-> NetworkError,
                      result |-> 0]
    /\ outcomes[3] = [fn |-> "getTotalAlertCount", error |-> OK, result |-> 2]
    /\ isRegistered("A1")
    /\ views["N1"] = <<[fn |-> "isVehicleRegistered", error |-> NetworkError,
                        result |-> FALSE]>>

====
